---- MODULE Spec2Model ----
(***************************************************************************)
(* Model of the WAGUS pool bridge page (src/src/pages/PoolBridge.tsx) and  *)
(* of the transaction helper (src/src/lib/solanaTransactionHelper.ts).      *)
(*                                                                         *)
(* The module holds several specifications over one set of variables:      *)
(*   SpecWait    one call of waitForWalletResponse, with its two timers,    *)
(*               the wrapped operation and the diagnostics log.             *)
(*   SpecHelper  one call of sendTransactionWithFallback or of              *)
(*               sendAndConfirmTransaction, whose three wallet/RPC requests *)
(*               each run inside a wait.                                    *)
(*   SpecPage    a page session: the hooks' values change, the effects set  *)
(*               status, the authorize button starts executeFunding or      *)
(*               executeWithdrawal, each await of which is a step.          *)
(*   SpecOp      SpecPage with the authorize button pressed at most once.   *)
(*   SpecParse, SpecWallet, SpecAmount, SpecLog, SpecReady                  *)
(*               parseParams, findWalletForAddresses, toBaseUnits,         *)
(*               appendLog and ensureWalletReady called on their own.      *)
(* The page specifications leave the diagnostics log aside: no handler     *)
(* reads logEntries, and SpecWait and SpecHelper model what is written.    *)
(* Inside a flow a wallet request settles in one step with one of the      *)
(* three outcomes of its wait, computed by the wait's own callbacks.       *)
(* Every specification leaves the variables of the other parts untouched.  *)
(*                                                                         *)
(* Text is modelled as a sequence of tokens (words and punctuation), so    *)
(* that String.includes and RegExp.test become a search for a contiguous   *)
(* run of tokens.                                                          *)
(***************************************************************************)
EXTENDS Integers, Sequences, FiniteSets, TLC

VARIABLES
    now,          \* Date.now(), in milliseconds
    logEntries,   \* React state logEntries (PoolBridge.tsx:252)
    logSeq,       \* logSequenceRef.current (PoolBridge.tsx:253)
    waits,        \* the closures of the waitForWalletResponse calls
    helper,       \* one call of sendTransactionWithFallback /
                  \* sendAndConfirmTransaction (solanaTransactionHelper.ts)
    cfg,          \* what a page load is given: the parsed URL, the
                  \* environment configuration, and whether the RPC node,
                  \* the wallet and the store answer every call they answer
                  \* without an error (reliable)
    env,          \* the hooks' values: usePrivy().ready, .authenticated,
                  \* solanaWallets.length
    lifecycle,    \* "constructed", "mounted" or "unmounted" (isMountedRef)
    status,       \* React state status (PoolBridge.tsx:250)
    error,        \* React state error (PoolBridge.tsx:251)
    poolAddress,  \* React state poolAddress (PoolBridge.tsx:260)
    hasRequestedLogin,   \* React state (PoolBridge.tsx:261)
    needsTreasurySetup,  \* React state (PoolBridge.tsx:262)
    loader,       \* the async block of the params effect (PoolBridge.tsx:924-931)
    flows,        \* the executeFunding / executeWithdrawal invocations
    remote,       \* the document bridge_operations/<operationId>
    lastWrite,    \* history: the last updateDoc call of markOperation
    passed,       \* history: how far status has come along two expected orders
    call          \* history: the last call of parseParams, toBaseUnits,
                  \* findWalletForAddresses or appendLog made on its own

waitVars == <<now, logEntries, logSeq, waits>>

pageVars == <<cfg, env, lifecycle, status, error, poolAddress,
              hasRequestedLogin, needsTreasurySetup, loader, flows,
              remote, lastWrite, passed, call>>

\* what the events of a wait never touch
nonWaitVars == <<helper, pageVars>>

vars == <<now, logEntries, logSeq, waits, helper, pageVars>>

----------------------------------------------------------------------------
(* Bounds of the model. *)

\* number of clock steps a behaviour may take
MaxClockSteps == 4
\* longest timeout / tick interval tried, in clock steps
MaxTimerSteps == 3

(* Program constants. *)

MAX_LOG_ENTRIES == 200
\* milliseconds per second, the divisor of the elapsed-seconds computation
MsPerSecond == 1000
\* the clock of SpecWait advances in steps of half a second
ClockStepMs == MsPerSecond \div 2
\* { timeoutMs: 180000 } of every wallet and RPC request
WalletTimeoutMs == 180000
\* tickMs = 5000, the default of waitForWalletResponse
DefaultTickMs == 5000
\* the clock of the other specifications advances by a third of the timeout:
\* the progress ticks in between coalesce into one late tick per step
CoarseStepMs == WalletTimeoutMs \div 3
\* number of coarse clock steps a behaviour may take
MaxCoarseSteps == 4

----------------------------------------------------------------------------
(* Text helpers. *)

\* String.prototype.includes / RegExp.test of a literal: pat occurs in msg
Includes(msg, pat) ==
    \E i \in 0..(Len(msg) - Len(pat)) :
        \A j \in 1..Len(pat) : msg[i + j] = pat[j]

\* Math.round(ms / 1000): round half up
RoundSeconds(ms) == (2 * ms + MsPerSecond) \div (2 * MsPerSecond)

\* { ...a, ...b }
Merge(a, b) ==
    [k \in (DOMAIN a) \cup (DOMAIN b) |-> IF k \in DOMAIN b THEN b[k] ELSE a[k]]

\* String.prototype.trim, the text being a sequence of characters
Trim(s) ==
    LET kept == {i \in 1..Len(s) : s[i] # " "}
    IN  IF kept = {} THEN <<>>
        ELSE SubSeq(s, CHOOSE i \in kept : \A j \in kept : i <= j,
                       CHOOSE i \in kept : \A j \in kept : j <= i)

DigitChars == <<"0", "1", "2", "3", "4", "5", "6", "7", "8", "9">>
IsDigits(s) ==
    \A i \in 1..Len(s) : \E d \in 1..Len(DigitChars) : s[i] = DigitChars[d]

\* the value of a string of decimal digits (0 for the empty string)
RECURSIVE DigitsValue(_)
DigitsValue(s) ==
    IF s = <<>> THEN 0
    ELSE 10 * DigitsValue(SubSeq(s, 1, Len(s) - 1))
            + ((CHOOSE d \in 1..Len(DigitChars) : s[Len(s)] = DigitChars[d]) - 1)

\* String.prototype.split("."), for at most one point
SplitAtPoint(s) ==
    LET points == {i \in 1..Len(s) : s[i] = "."}
    IN  IF points = {} THEN <<s>>
        ELSE LET i == CHOOSE k \in points : \A j \in points : k <= j
             IN  <<SubSeq(s, 1, i - 1), SubSeq(s, i + 1, Len(s))>>

NoContext == [k \in {} |-> ""]
NoKey == <<>>

----------------------------------------------------------------------------
(* appendLog: the functional update of logEntries. *)

FindIndex(entries, onceKey) ==
    IF \E i \in 1..Len(entries) : entries[i].onceKey = onceKey
    THEN CHOOSE i \in 1..Len(entries) :
            /\ entries[i].onceKey = onceKey
            /\ \A j \in 1..(i - 1) : entries[j].onceKey # onceKey
    ELSE 0

\* last && last.message === trimmed && last.level === level
SameAsLastIgnoringLevel(entries, trimmed, level) ==
    /\ Len(entries) > 0
    /\ entries[Len(entries)].message = trimmed

SameAsLast(entries, trimmed, level) ==
    /\ Len(entries) > 0
    /\ entries[Len(entries)].message = trimmed
    /\ entries[Len(entries)].level = level

\* if (entries.length >= MAX_LOG_ENTRIES) entries.shift()
ShiftNever(entries) == entries

Shift(entries) ==
    IF Len(entries) >= MAX_LOG_ENTRIES THEN Tail(entries) ELSE entries

AppendLogEntries(entries, message, level, context, onceKey, ts, seq) ==
    LET trimmed == Trim(message)
        existingIndex == IF onceKey # NoKey THEN FindIndex(entries, onceKey) ELSE 0
        entry == [id |-> <<ts, seq>>, timestamp |-> ts, level |-> level,
                  message |-> trimmed, count |-> 1, context |-> context,
                  onceKey |-> onceKey]
    IN  IF existingIndex > 0
        THEN [entries EXCEPT ![existingIndex] =
                [@ EXCEPT !.message = trimmed, !.timestamp = ts,
                          !.count = @ + 1, !.context = Merge(@, context)]]
        ELSE IF onceKey = NoKey /\ SameAsLast(entries, trimmed, level)
        THEN [entries EXCEPT ![Len(entries)] =
                [@ EXCEPT !.timestamp = ts, !.count = @ + 1,
                          !.context = Merge(@, context)]]
        ELSE Append(Shift(entries), entry)

\* whether the call consumed a sequence number (logSequenceRef.current++)
AppendLogCreates(entries, message, level, onceKey) ==
    /\ ~(onceKey # NoKey /\ FindIndex(entries, onceKey) > 0)
    /\ ~(onceKey = NoKey /\ SameAsLast(entries, Trim(message), level))

\* appendLog as a state change of the page
AppendLog(message, level, context, onceKey) ==
    /\ logEntries' = AppendLogEntries(logEntries, message, level, context,
                                      onceKey, now, logSeq)
    /\ logSeq' = IF AppendLogCreates(logEntries, message, level, onceKey)
                 THEN logSeq + 1 ELSE logSeq

----------------------------------------------------------------------------
(* waitForWalletResponse (PoolBridge.tsx:358-434).                          *)
(* A wait is the closure of one call: its options, the flag resolved, the   *)
(* two timers, the wrapped operation and the returned promise.  The fields  *)
(* first and settleCalls are history: the first of the three outcomes       *)
(* (operation fulfilled, operation rejected, timeout fired) to occur and    *)
(* the number of resolve/reject invocations made on the returned promise.   *)

\* a helper call makes up to three waits: direct send, sign-only, broadcast
WaitIds == {1, 2, 3}

NoValue == [kind |-> "none"]
Value(v) == [kind |-> "value", v |-> v]
\* a thrown value: message is its .message, isError whether it is an Error
Thrown(isError, message) ==
    [kind |-> "error", isError |-> isError, message |-> message]

Pending == [state |-> "pending", value |-> NoValue]

\* resolve / reject of a promise: only the first call has an effect
Settle(promise, state, value) ==
    IF promise.state = "pending"
    THEN [state |-> state, value |-> value]
    ELSE promise

IdleWait ==
    [called |-> FALSE, label |-> <<>>, timeoutMs |-> 0, tickMs |-> 0,
     startedAt |-> 0, resolved |-> FALSE,
     timeoutId |-> "none", timeoutDue |-> 0,
     intervalId |-> "none", intervalDue |-> 0,
     op |-> "none", promise |-> Pending,
     first |-> NoValue, firstAt |-> 0, settleCalls |-> 0, ticks |-> 0]

\* `${label}-wallet-await`
WaitKey(label) == label \o <<"-wallet-await">>

\* `${label} timed out after ${elapsed} seconds`
TimeoutMessage(label, elapsed) ==
    label \o <<"timed", "out", "after", ToString(elapsed), "seconds">>

ElapsedContext(x, t) ==
    [k \in {"elapsedSeconds"} |-> <<RoundSeconds(t - x.startedAt), 1>>]

ProgressContext(x, t) ==
    [k \in {"elapsedSeconds", "timeoutSeconds"} |->
        IF k = "elapsedSeconds"
        THEN <<RoundSeconds(t - x.startedAt), 1>>
        ELSE <<x.timeoutMs, MsPerSecond>>]

NoLog == [emit |-> FALSE]
Log(message, level, context, onceKey) ==
    [emit |-> TRUE, message |-> message, level |-> level,
     context |-> context, onceKey |-> onceKey]

\* the body of the call: operation() is invoked, then both timers are set
StartWait(label, timeoutMs, tickMs, t) ==
    [IdleWait EXCEPT
        !.called = TRUE, !.label = label,
        !.timeoutMs = timeoutMs, !.tickMs = tickMs, !.startedAt = t,
        !.timeoutId = "armed", !.timeoutDue = t + timeoutMs,
        !.intervalId = "armed", !.intervalDue = t + tickMs,
        !.op = "pending"]

\* operation() itself throws: the async function rejects before any timer
StartWaitThrown(label, timeoutMs, tickMs, t, err) ==
    [IdleWait EXCEPT
        !.called = TRUE, !.label = label,
        !.timeoutMs = timeoutMs, !.tickMs = tickMs, !.startedAt = t,
        !.op = "threw", !.promise = Settle(@, "rejected", err),
        !.settleCalls = 1]

\* the setTimeout callback: it rejects the returned promise and leaves the
\* wrapped operation alone
OnTimeoutAborts(x, t) ==
    IF x.resolved
    THEN [wait |-> [x EXCEPT !.timeoutId = "fired"], log |-> NoLog]
    ELSE [wait |-> [x EXCEPT
                !.timeoutId = "fired",
                !.resolved = TRUE,
                !.op = "aborted",
                !.promise = Settle(@, "rejected",
                    Thrown(TRUE, TimeoutMessage(x.label,
                                    RoundSeconds(t - x.startedAt)))),
                !.settleCalls = @ + 1],
          log |-> Log(x.label \o <<":", "no", "wallet", "response",
                                   "timing", "out">>,
                      "error", ProgressContext(x, t), WaitKey(x.label))]

OnTimeout(x, t) ==
    IF x.resolved
    THEN [wait |-> [x EXCEPT !.timeoutId = "fired"], log |-> NoLog]
    ELSE [wait |-> [x EXCEPT
                !.timeoutId = "fired",
                !.resolved = TRUE,
                !.promise = Settle(@, "rejected",
                    Thrown(TRUE, TimeoutMessage(x.label,
                                    RoundSeconds(t - x.startedAt)))),
                !.settleCalls = @ + 1],
          log |-> Log(x.label \o <<":", "no", "wallet", "response",
                                   "timing", "out">>,
                      "error", ProgressContext(x, t), WaitKey(x.label))]

\* the setInterval callback
OnTickMarksResolved(x, t) ==
    [wait |-> [x EXCEPT !.intervalDue = t + x.tickMs, !.ticks = @ + 1,
                        !.resolved = TRUE],
     log |-> IF x.resolved THEN NoLog
             ELSE Log(x.label \o <<":", "awaiting", "wallet", "signature">>,
                      "warn", ProgressContext(x, t), WaitKey(x.label))]

OnTick(x, t) ==
    IF x.resolved
    THEN [wait |-> [x EXCEPT !.intervalDue = t + x.tickMs], log |-> NoLog]
    ELSE [wait |-> [x EXCEPT !.intervalDue = t + x.tickMs, !.ticks = @ + 1],
          log |-> Log(x.label \o <<":", "awaiting", "wallet", "signature">>,
                      "warn", ProgressContext(x, t), WaitKey(x.label))]

\* clearTimeout / clearInterval: no effect on a timer that fired or was cleared
Cleared(id) == IF id = "armed" THEN "cleared" ELSE id

\* pending.then(...)
OnFulfilUnguarded(x, v, t) ==
    [wait |-> [x EXCEPT
                !.resolved = TRUE,
                !.timeoutId = Cleared(@), !.intervalId = Cleared(@),
                !.promise = Settle(@, "fulfilled", Value(v)),
                !.settleCalls = @ + 1],
     log |-> Log(x.label \o <<":", "wallet", "approved", "request">>,
                 "success", ElapsedContext(x, t), WaitKey(x.label))]

OnFulfil(x, v, t) ==
    IF x.resolved
    THEN [wait |-> x, log |-> NoLog]
    ELSE [wait |-> [x EXCEPT
                !.resolved = TRUE,
                !.timeoutId = Cleared(@), !.intervalId = Cleared(@),
                !.promise = Settle(@, "fulfilled", Value(v)),
                !.settleCalls = @ + 1],
          log |-> Log(x.label \o <<":", "wallet", "approved", "request">>,
                      "success", ElapsedContext(x, t), WaitKey(x.label))]

\* .catch(...)
OnReject(x, err, t) ==
    IF x.resolved
    THEN [wait |-> x, log |-> NoLog]
    ELSE [wait |-> [x EXCEPT
                !.resolved = TRUE,
                !.timeoutId = Cleared(@), !.intervalId = Cleared(@),
                !.promise = Settle(@, "rejected", err),
                !.settleCalls = @ + 1],
          log |-> Log(x.label \o <<":", "wallet", "rejected", "request">>,
                      "error", ElapsedContext(x, t), WaitKey(x.label))]

\* history: the first outcome to occur
NoteFirst(x, outcome, t) ==
    IF x.first.kind = "none"
    THEN [x EXCEPT !.first = outcome, !.firstAt = t]
    ELSE x

Emit(log) ==
    IF log.emit
    THEN AppendLog(log.message, log.level, log.context, log.onceKey)
    ELSE UNCHANGED <<logEntries, logSeq>>

----------------------------------------------------------------------------
(* The events of a wait, as steps of the event loop. *)

TimeoutFires(w) ==
    /\ waits[w].timeoutId = "armed"
    /\ now >= waits[w].timeoutDue
    /\ LET r == OnTimeout(waits[w], now)
       IN  /\ waits' = [waits EXCEPT ![w] =
                            NoteFirst(r.wait, [kind |-> "timeout"], now)]
           /\ Emit(r.log)
    /\ UNCHANGED now
    /\ UNCHANGED nonWaitVars

IntervalFires(w) ==
    /\ waits[w].intervalId = "armed"
    /\ now >= waits[w].intervalDue
    /\ LET r == OnTick(waits[w], now)
       IN  /\ waits' = [waits EXCEPT ![w] = r.wait]
           /\ Emit(r.log)
    /\ UNCHANGED now
    /\ UNCHANGED nonWaitVars

OperationFulfils(w, v) ==
    /\ waits[w].op = "pending"
    /\ LET r == OnFulfil(waits[w], v, now)
       IN  /\ waits' = [waits EXCEPT ![w] =
                            NoteFirst([r.wait EXCEPT !.op = "fulfilled"],
                                      Value(v), now)]
           /\ Emit(r.log)
    /\ UNCHANGED now
    /\ UNCHANGED nonWaitVars

OperationRejects(w, err) ==
    /\ waits[w].op = "pending"
    /\ LET r == OnReject(waits[w], err, now)
       IN  /\ waits' = [waits EXCEPT ![w] =
                            NoteFirst([r.wait EXCEPT !.op = "rejected"],
                                      err, now)]
           /\ Emit(r.log)
    /\ UNCHANGED now
    /\ UNCHANGED nonWaitVars

----------------------------------------------------------------------------
(* State of a helper call (solanaTransactionHelper.ts:130-329).             *)
(* calls is history: the wallet and RPC requests made, in order.            *)

IdleHelper ==
    [pc |-> "idle", entry |-> "none", hasAppendLog |-> FALSE,
     useDirectEmbeddedSigning |-> FALSE, isPrivyWallet |-> FALSE,
     hasBlockhash |-> FALSE, signHook |-> FALSE, confirm |-> "none",
     inner |-> Pending, result |-> Pending, calls |-> <<>>]

----------------------------------------------------------------------------
(* State of a page session (PoolBridge.tsx:206-265). *)

\* number of slots for executeFunding / executeWithdrawal invocations
MaxFlows == 2
\* largest solanaWallets.length tried
MaxWallets == 1

FlowIds == 1..MaxFlows

NoError == <<>>
NoSignature == <<"none", 0, 0>>
\* the signature the wallet returns for the n-th request of flow f
SignatureOf(f, n) == <<"signature", f, n>>
\* return "timed-out"
TimedOutPlaceholder == <<"timed-out", 0, 0>>

Unread == "unread"
NoFacts == [rpc |-> Unread, mint |-> Unread, amount |-> Unread,
            source |-> Unread, dest |-> Unread]

IdleFlow ==
    [pc |-> "idle", facts |-> NoFacts,
     createWait |-> "none", recovery |-> "none", createConfirm |-> "none",
     createResult |-> NoSignature,
     xferWait |-> "none", xferConfirm |-> "none", xferSignature |-> NoSignature,
     pendingMessage |-> NoError, errorMessage |-> NoError, treasury |-> FALSE,
     kind |-> "none", wallet |-> "unresolved", target |-> "none",
     loginRequested |-> FALSE,
     outcome |-> "none", failedAt |-> "none", requests |-> <<>>]

NoDocument == [status |-> "pending", transactionHash |-> NoSignature,
               error |-> NoError]
NoWrite == [flow |-> 0, status |-> "none", transactionHash |-> NoSignature]

\* no call made yet; n counts the calls
NoCall == [n |-> 0, fn |-> "none"]

\* the order of statuses of the specification's end-to-end scenario, and the
\* same order without the login prompt
ScenarioOrder ==
    <<"initializing", "awaiting-auth", "ready", "processing", "success">>
DirectOrder == <<"initializing", "ready", "processing", "success">>
Orders == <<ScenarioOrder, DirectOrder>>

\* the values of the page variables in the specifications without a page
PageAbsent ==
    /\ cfg = [params |-> "invalid", rpcUrl |-> FALSE, urlPool |-> FALSE,
              recipientOk |-> FALSE, reliable |-> FALSE]
    /\ env = [ready |-> FALSE, authenticated |-> FALSE, walletsLen |-> 0]
    /\ lifecycle = "absent"
    /\ status = "initializing"
    /\ error = NoError
    /\ poolAddress = "none"
    /\ hasRequestedLogin = FALSE
    /\ needsTreasurySetup = FALSE
    /\ loader = "idle"
    /\ flows = [f \in FlowIds |-> IdleFlow]
    /\ remote = NoDocument
    /\ lastWrite = NoWrite
    /\ passed = <<1, 1>>
    /\ call = NoCall

----------------------------------------------------------------------------
(* SpecWait: one call of waitForWalletResponse. *)

TimerChoices == {k * ClockStepMs : k \in 1..MaxTimerSteps}
WalletValues == {"sigA", "sigB"}
WalletErrors == {Thrown(TRUE, <<"User", "rejected">>),
                 Thrown(FALSE, <<"denied">>)}
LabelL == <<"L">>

\* an entry left by an earlier wait under the same label, and an unrelated one
EarlierEntry ==
    [id |-> <<0, 0>>, timestamp |-> 0, level |-> "success",
     message |-> LabelL \o <<":", "wallet", "approved", "request">>,
     count |-> 1, context |-> [k \in {"elapsedSeconds"} |-> <<0, 1>>],
     onceKey |-> WaitKey(LabelL)]
OtherEntry ==
    [id |-> <<0, 0>>, timestamp |-> 0, level |-> "info",
     message |-> <<"Starting">>, count |-> 1, context |-> NoContext,
     onceKey |-> NoKey]
InitialLogs == {<<>>, <<OtherEntry>>, <<EarlierEntry>>}

InitWait ==
    /\ now = 0
    /\ logEntries \in InitialLogs
    /\ logSeq = Len(logEntries)
    /\ waits = [w \in WaitIds |-> IdleWait]
    /\ helper = IdleHelper
    /\ PageAbsent

WaitInvoke ==
    /\ ~waits[1].called
    /\ \E timeoutMs \in TimerChoices, tickMs \in TimerChoices :
          \/ waits' = [waits EXCEPT ![1] =
                            StartWait(LabelL, timeoutMs, tickMs, now)]
          \/ \E e \in WalletErrors :
                waits' = [waits EXCEPT ![1] =
                            StartWaitThrown(LabelL, timeoutMs, tickMs, now, e)]
    /\ UNCHANGED <<now, logEntries, logSeq>>
    /\ UNCHANGED nonWaitVars

ClockAdvances ==
    /\ now < MaxClockSteps * ClockStepMs
    /\ now' = now + ClockStepMs
    /\ UNCHANGED <<logEntries, logSeq, waits>>
    /\ UNCHANGED nonWaitVars

WaitTimeout == TimeoutFires(1)
WaitTick == IntervalFires(1)
WaitFulfil == \E v \in WalletValues : OperationFulfils(1, v)
WaitReject == \E e \in WalletErrors : OperationRejects(1, e)

NextWait ==
    \/ WaitInvoke
    \/ ClockAdvances
    \/ WaitTimeout
    \/ WaitTick
    \/ WaitFulfil
    \/ WaitReject

SpecWait == InitWait /\ [][NextWait]_vars

----------------------------------------------------------------------------
(* Claims about waitForWalletResponse. *)

\* C1: whatever the timeout and the tick interval, a wait whose operation
\* fulfils before the timeout timer fires fulfils with exactly the operation's
\* value, and a wait whose timeout timer fires first rejects with the error
\* '<label> timed out after N seconds', N the rounded elapsed seconds.
C1_ValueOrTimeoutError ==
    \A w \in WaitIds :
        LET x == waits[w]
        IN  /\ x.first.kind = "value" =>
                /\ x.promise.state = "fulfilled"
                /\ x.promise.value = x.first
            /\ x.first.kind = "timeout" =>
                /\ x.promise.state = "rejected"
                /\ x.promise.value =
                      Thrown(TRUE, TimeoutMessage(x.label,
                                RoundSeconds(x.firstAt - x.startedAt)))

\* C1 witness: the operation fulfilled after at least one progress tick of an
\* interval shorter than the timeout, and the promise carries its value.
C1_Witness ==
    /\ waits[1].first.kind = "value"
    /\ waits[1].ticks > 0
    /\ waits[1].tickMs < waits[1].timeoutMs
    /\ waits[1].promise.state = "fulfilled"

\* C2: a wait settles its promise at most once, with the first outcome to
\* occur (the operation's value, the operation's own error, or the timeout
\* error), and once it has settled no later outcome changes the result or
\* the log.
C2_FirstOutcomeOnly ==
    /\ [](\A w \in WaitIds :
            LET x == waits[w]
            IN  /\ x.settleCalls <= 1
                /\ x.first.kind = "value" =>
                      x.promise = [state |-> "fulfilled", value |-> x.first]
                /\ x.first.kind = "error" =>
                      x.promise = [state |-> "rejected", value |-> x.first]
                /\ x.first.kind = "timeout" =>
                      /\ x.promise.state = "rejected"
                      /\ Includes(x.promise.value.message,
                                  <<"timed", "out", "after">>))
    /\ [][\A w \in WaitIds :
            waits[w].promise.state # "pending" =>
                /\ waits'[w].promise = waits[w].promise
                /\ logEntries' = logEntries]_vars

\* C2 witness: the timeout settled the wait and the operation fulfilled later.
C2_Witness ==
    /\ waits[1].first.kind = "timeout"
    /\ waits[1].op = "fulfilled"

\* the entries of the log that carry the key of wait w
KeyedEntries(w) ==
    {i \in 1..Len(logEntries) : logEntries[i].onceKey = WaitKey(waits[w].label)}

\* C21: a wait writes a log entry under the key '<label>-wallet-await' when
\* it starts, at each tick while pending, on success and on failure; the log
\* never holds more than one entry under that key, each event overwriting
\* the entry of the event before.
C21_LogsEveryEvent ==
    /\ [](\A w \in WaitIds :
            waits[w].called => Cardinality(KeyedEntries(w)) <= 1)
    /\ [][\A w \in WaitIds :
            LET x == waits[w]
                y == waits'[w]
                event ==
                    \/ ~x.called /\ y.called /\ y.op = "pending"
                    \/ y.ticks > x.ticks
                    \/ x.promise.state = "pending" /\ y.promise.state # "pending"
            IN  event =>
                    /\ logEntries' # logEntries
                    /\ \E i \in 1..Len(logEntries') :
                          /\ logEntries'[i].onceKey = WaitKey(y.label)
                          /\ logEntries'[i].timestamp = now]_vars

----------------------------------------------------------------------------
(* sendTransactionWithFallback and sendAndConfirmTransaction                *)
(* (solanaTransactionHelper.ts:130-329).  Wait 1 wraps the wallet's direct  *)
(* sign-and-send, wait 2 the sign-only request, wait 3 the raw broadcast.   *)

HelperLabel == <<"Send">>
SignedValues == {"signedTx"}
TypeError == Thrown(TRUE, <<"is", "not", "a", "function">>)
EmbeddedSigningError ==
    Thrown(TRUE, <<"Direct", "embedded", "signing", "no", "longer",
                   "supported", "-", "wallet", "helper", "removed">>)

\* const log = appendLog ?? (() => {})
HelperLog(h, message, level, context) ==
    IF h.hasAppendLog
    THEN AppendLog(message, level, context, NoKey)
    ELSE UNCHANGED <<logEntries, logSeq>>

SignatureContext(v) == [k \in {"signature"} |-> <<v>>]
\* { walletAddress: wallet.address, ...describeError(error) }
ErrorContext(err) ==
    [k \in {"walletAddress", "message"} |->
        IF k = "walletAddress" THEN <<"wallet">> ELSE err.message]

\* the catch of the direct attempt takes every error to the manual path
UseManualFallbackUnlessTimeout(err) ==
    ~Includes(err.message, <<"timed", "out", "after">>)

UseManualFallback(err) == TRUE

\* the promise of sendTransactionWithFallback settles; sendAndConfirmTransaction
\* goes on to the confirmation when it was given a blockhash
InnerSettled(h, promise) ==
    IF h.entry = "confirm" /\ promise.state = "fulfilled" /\ h.hasBlockhash
    THEN [h EXCEPT !.inner = promise, !.pc = "confirm",
                   !.calls = Append(@, "confirmTransaction")]
    ELSE [h EXCEPT !.inner = promise, !.result = promise, !.pc = "done"]

\* a wait begins: operation() returns a promise, or throws on the spot
BeginWait(w, mayThrow, mustThrow) ==
    \/ /\ ~mustThrow
       /\ waits' = [waits EXCEPT ![w] =
                StartWait(HelperLabel, WalletTimeoutMs, DefaultTickMs, now)]
    \/ /\ mayThrow \/ mustThrow
       /\ waits' = [waits EXCEPT ![w] =
                StartWaitThrown(HelperLabel, WalletTimeoutMs, DefaultTickMs,
                                now, TypeError)]

\* sendWithWallet()
BeginDirect(h) ==
    /\ helper' = [h EXCEPT !.pc = "direct",
                           !.calls = Append(@, "signAndSendTransaction")]
    /\ BeginWait(1, TRUE, FALSE)

\* the test on the option alone, without the wallet's client type
RejectsEmbeddedFlagOnly(useDirectEmbeddedSigning, isPrivyWallet) ==
    useDirectEmbeddedSigning

\* if (useDirectEmbeddedSigning || isPrivyWallet) throw
RejectsEmbedded(useDirectEmbeddedSigning, isPrivyWallet) ==
    useDirectEmbeddedSigning \/ isPrivyWallet

HelperCall ==
    /\ helper.pc = "idle"
    /\ \E entry \in {"fallback", "confirm"},
          useDirectEmbeddedSigning \in BOOLEAN, isPrivyWallet \in BOOLEAN,
          hasEnsure \in BOOLEAN, hasAppendLog \in BOOLEAN,
          hasBlockhash \in BOOLEAN, signHook \in BOOLEAN :
          LET h == [helper EXCEPT !.entry = entry,
                                  !.useDirectEmbeddedSigning =
                                        useDirectEmbeddedSigning,
                                  !.isPrivyWallet = isPrivyWallet,
                                  !.hasAppendLog = hasAppendLog,
                                  !.hasBlockhash = hasBlockhash,
                                  !.signHook = signHook]
          IN  \* sendAndConfirmTransaction passes no useDirectEmbeddedSigning
              /\ entry = "confirm" => ~useDirectEmbeddedSigning
              /\ entry = "fallback" => ~hasBlockhash
              /\ IF RejectsEmbedded(useDirectEmbeddedSigning, isPrivyWallet)
                 THEN /\ helper' = InnerSettled(h,
                            Settle(Pending, "rejected", EmbeddedSigningError))
                      /\ UNCHANGED waits
                 ELSE IF hasEnsure
                 THEN /\ helper' = [h EXCEPT !.pc = "ensure",
                                !.calls = Append(@, "ensureWalletReady")]
                      /\ UNCHANGED waits
                 ELSE BeginDirect(h)
    /\ UNCHANGED <<now, logEntries, logSeq, pageVars>>

\* await ensureWalletReady(wallet, label)
HelperEnsureDone ==
    /\ helper.pc = "ensure"
    /\ \/ BeginDirect(helper)
       \/ \E e \in WalletErrors :
            /\ helper' = InnerSettled(helper, Settle(Pending, "rejected", e))
            /\ UNCHANGED waits
    /\ UNCHANGED <<now, logEntries, logSeq, pageVars>>

\* the await of sendWithWallet returns or throws into the catch
HelperDirectDone ==
    /\ helper.pc = "direct"
    /\ waits[1].promise.state # "pending"
    /\ IF waits[1].promise.state = "fulfilled"
       THEN /\ helper' = InnerSettled(helper, waits[1].promise)
            /\ HelperLog(helper,
                    HelperLabel \o <<":", "wallet", "sendTransaction",
                                     "succeeded">>,
                    "success", SignatureContext(waits[1].promise.value.v))
            /\ UNCHANGED waits
       ELSE IF UseManualFallback(waits[1].promise.value)
       THEN /\ helper' = [helper EXCEPT !.pc = "sign",
                            !.calls = Append(@, "signTransaction")]
            /\ HelperLog(helper,
                    HelperLabel \o <<":", "signAndSendTransaction", "failed",
                                     "attempting", "manual", "fallback">>,
                    "warn", ErrorContext(waits[1].promise.value))
            /\ BeginWait(2, TRUE, FALSE)
       ELSE /\ helper' = InnerSettled(helper, waits[1].promise)
            /\ UNCHANGED <<waits, logEntries, logSeq>>
    /\ UNCHANGED <<now, pageVars>>

\* throw manualError
ManualFailure(promise) ==
    /\ helper' = InnerSettled(helper, promise)
    /\ HelperLog(helper,
            HelperLabel \o <<":", "manual", "signing", "path", "failed">>,
            "error", ErrorContext(promise.value))
    /\ UNCHANGED waits

\* the sign-only request settles; on success the signed payload is serialized
\* and broadcast (the hook's payload is a byte array without serialize())
HelperSignDone ==
    /\ helper.pc = "sign"
    /\ waits[2].promise.state # "pending"
    /\ IF waits[2].promise.state = "fulfilled"
       THEN \/ /\ ~helper.signHook
               /\ helper' = [helper EXCEPT !.pc = "raw",
                                !.calls = Append(@, "sendRawTransaction")]
               /\ BeginWait(3, FALSE, FALSE)
               /\ UNCHANGED <<logEntries, logSeq>>
            \/ /\ helper' = [helper EXCEPT !.pc = "raw"]
               /\ BeginWait(3, FALSE, TRUE)
               /\ UNCHANGED <<logEntries, logSeq>>
       ELSE ManualFailure(waits[2].promise)
    /\ UNCHANGED <<now, pageVars>>

\* the broadcast settles
HelperRawDone ==
    /\ helper.pc = "raw"
    /\ waits[3].promise.state # "pending"
    /\ IF waits[3].promise.state = "fulfilled"
       THEN /\ helper' = InnerSettled(helper, waits[3].promise)
            /\ HelperLog(helper,
                    HelperLabel \o <<":", "signed", "transaction", "submitted",
                                     "via", "RPC">>,
                    "success", SignatureContext(waits[3].promise.value.v))
            /\ UNCHANGED waits
       ELSE ManualFailure(waits[3].promise)
    /\ UNCHANGED <<now, pageVars>>

\* connection.confirmTransaction settles inside the try of
\* sendAndConfirmTransaction: its value is not read, its error is logged
HelperConfirmDone ==
    /\ helper.pc = "confirm"
    /\ \E outcome \in {"confirmed", "chainError", "throws"} :
          /\ helper' = [helper EXCEPT !.pc = "done", !.result = helper.inner,
                                      !.confirm = outcome]
          /\ IF outcome = "throws"
             THEN HelperLog(helper,
                    HelperLabel \o <<":", "confirmation", "check", "failed">>,
                    "warn", [k \in {"reason"} |-> <<"confirm", "error">>])
             ELSE UNCHANGED <<logEntries, logSeq>>
    /\ UNCHANGED <<now, waits, pageVars>>

HelperValues(w) == IF w = 2 THEN SignedValues ELSE WalletValues

HelperTimeout == \E w \in WaitIds : TimeoutFires(w)
HelperTick == \E w \in WaitIds : IntervalFires(w)
HelperFulfil == \E w \in WaitIds : \E v \in HelperValues(w) : OperationFulfils(w, v)
HelperReject == \E w \in WaitIds : \E e \in WalletErrors : OperationRejects(w, e)

\* time is only observed by a wait in progress
CoarseClockAdvances ==
    /\ now < MaxCoarseSteps * CoarseStepMs
    /\ \E w \in WaitIds : waits[w].called /\ waits[w].promise.state = "pending"
    /\ now' = now + CoarseStepMs
    /\ UNCHANGED <<logEntries, logSeq, waits>>
    /\ UNCHANGED nonWaitVars

InitHelper ==
    /\ now = 0
    /\ logEntries = <<>>
    /\ logSeq = 0
    /\ waits = [w \in WaitIds |-> IdleWait]
    /\ helper = IdleHelper
    /\ PageAbsent

NextHelper ==
    \/ HelperCall
    \/ HelperEnsureDone
    \/ HelperDirectDone
    \/ HelperSignDone
    \/ HelperRawDone
    \/ HelperConfirmDone
    \/ HelperTimeout
    \/ HelperTick
    \/ HelperFulfil
    \/ HelperReject
    \/ CoarseClockAdvances

SpecHelper == InitHelper /\ [][NextHelper]_vars

----------------------------------------------------------------------------
(* Claims about sendTransactionWithFallback. *)

StrategyCalls ==
    SelectSeq(helper.calls,
              LAMBDA c : c \in {"signAndSendTransaction", "signTransaction",
                                "sendRawTransaction"})

IsPrefix(s, t) == Len(s) <= Len(t) /\ \A i \in 1..Len(s) : s[i] = t[i]

C12_TimeoutLeavesRequestRunning ==
    /\ [][\A w \in WaitIds :
            (waits[w].timeoutId = "armed" /\ waits'[w].timeoutId = "fired") =>
                waits'[w].op = waits[w].op]_vars
    /\ [][\A w \in WaitIds :
            waits[w].promise.state # "pending" =>
                waits'[w].promise = waits[w].promise]_vars
    /\ [][helper.inner.state # "pending" => helper'.inner = helper.inner]_vars
    /\ [](/\ waits[1].first.kind = "timeout"
          /\ helper.pc \in {"confirm", "done"}
          /\ waits[3].promise.state = "fulfilled"
          => helper.inner = waits[3].promise)

\* C12 witness: the direct request timed out, the fallback signed and
\* broadcast the transaction, and the direct request completed as well; the
\* caller holds the fallback's signature.
C12_Witness ==
    /\ waits[1].first.kind = "timeout"
    /\ waits[1].op = "fulfilled"
    /\ waits[3].op = "fulfilled"
    /\ helper.pc = "done"
    /\ helper.result = waits[3].promise
    /\ helper.calls = <<"signAndSendTransaction", "signTransaction",
                        "sendRawTransaction">>

----------------------------------------------------------------------------
(* The page: effects (PoolBridge.tsx:915-1001, 2007-2018) and the loader.   *)

\* the texts the page sets as error or throws, as the source spells them
\* (shortened to their leading sentence)
Message ==
    [invalidRequest |->
        <<"Invalid", "funding", "request", ".", "Please", "relaunch", "from", "the", "WAGUS", "app", ".">>,
     missingRpc |->
        <<"Missing", "RPC", "configuration", ".", "Please", "contact", "support", ".">>,
     walletsDisabled |->
        <<"Solana", "embedded", "wallets", "are", "not", "enabled", ".">>,
     noWallet |->
        <<"No", "Solana", "wallet", "available", ".">>,
     walletInvalid |->
        <<"Wallet", "address", "is", "invalid", ".">>,
     recipientInvalid |->
        <<"Recipient", "address", "is", "invalid", ".">>,
     noPool |->
        <<"Pool", "destination", "address", "is", "not", "configured", ".">>,
     treasuryNotReady |->
        <<"The", "pool", "treasury", "wallet", "is", "not", "ready", "for", "WAGUS", "yet", ".">>,
     recipientNotReady |->
        <<"The", "recipient", "wallet", "does", "not", "have", "an", "account", "for", "this", "token", "yet", ".">>,
     rpcFailed |->
        <<"failed", "to", "get", "info", "about", "account">>,
     blockhashFailed |->
        <<"failed", "to", "get", "recent", "blockhash">>,
     mintMissing |->
        <<"Token", "mint", "account", "not", "found", "on", "Solana", ".">>,
     amountInvalid |->
        <<"Invalid", "amount", "provided", ".">>,
     sourceMissing |->
        <<"Associated", "token", "account", "for", "contributor", "not", "found", ".">>,
     sourceOwner |->
        <<"Contributor", "token", "account", "is", "not", "owned", "by", "the", "expected", "token", "program", ".">>,
     destinationNotSpl |->
        <<"Destination", "account", "exists", "but", "is", "not", "an", "SPL", "token", "account", ".">>,
     walletNotFound |->
        <<"Could", "not", "find", "Privy", "Solana", "wallet", "for", "address">>,
     transferBuildFailed |->
        <<"failed", "to", "find", "account">>,
     confirmFailed |->
        <<"block", "height", "exceeded">>,
     transactionFailed |->
        <<"Transaction", "failed", ":", "InstructionError">>,
     storeFailed |->
        <<"Missing", "or", "insufficient", "permissions", ".">>,
     missingParameters |->
        <<"Missing", "or", "invalid", "parameters", ".">>]

Mounted == lifecycle = "mounted"

\* a state setter: React drops the update of an unmounted component
Set(current, new) == IF Mounted THEN new ELSE current

\* history: the position reached along each expected order of statuses
Advance(order, i, s) ==
    IF i < Len(order) /\ order[i + 1] = s THEN i + 1 ELSE i

Passed(s) ==
    IF s = status THEN passed
    ELSE [i \in 1..Len(Orders) |-> Advance(Orders[i], passed[i], s)]

\* setStatus(s), as rendered
SetStatus(s) ==
    /\ status' = Set(status, s)
    /\ passed' = Passed(Set(status, s))

ParamsValid == cfg.params # "invalid"

Configs ==
    {c \in [params : {"invalid", "fund_pool", "withdraw_pool"},
            rpcUrl : BOOLEAN, urlPool : BOOLEAN, recipientOk : BOOLEAN,
            reliable : BOOLEAN] :
        /\ c.params = "invalid" => ~c.urlPool
        /\ c.params # "withdraw_pool" => ~c.recipientOk}

\* the status the auth effect sets (PoolBridge.tsx:944-1001)
AuthStatusNoPrompt(e) ==
    IF ~e.ready THEN "initializing"
    ELSE IF e.authenticated /\ e.walletsLen = 0 THEN "initializing"
    ELSE "ready"

AuthStatus(e) ==
    IF ~e.ready THEN "initializing"
    ELSE IF ~e.authenticated THEN "awaiting-auth"
    ELSE IF e.walletsLen = 0 THEN "initializing"
    ELSE "ready"

\* the auth effect, run after the hooks' values became e
AuthEffect(e) ==
    IF ~ParamsValid
    THEN UNCHANGED <<status, passed, error, hasRequestedLogin>>
    ELSE /\ SetStatus(AuthStatus(e))
         /\ hasRequestedLogin' =
                (hasRequestedLogin \/ (e.ready /\ ~e.authenticated))
         /\ error' = IF e.ready /\ e.authenticated /\ e.walletsLen = 0
                     THEN Message.walletsDisabled ELSE error

\* const rpcUrl = import.meta.env.VITE_HELIUS_RPC, as a truth value: the
\* variable is used as it is, without a default
RpcUrlOrDefault(c) == TRUE

RpcUrl(c) == c.rpcUrl

\* the first render commits: the effects run in order and their updates are
\* applied together, the last setStatus winning
Mount ==
    /\ lifecycle = "constructed"
    /\ lifecycle' = "mounted"
    /\ LET s1 == IF ParamsValid THEN "awaiting-auth" ELSE "failed"
           s3 == IF ParamsValid THEN AuthStatus(env) ELSE s1
           s5 == IF RpcUrl(cfg) THEN s3 ELSE "failed"
       IN  /\ status' = s5
           /\ passed' = Passed(s5)
           /\ error' = IF ~RpcUrl(cfg) THEN Message.missingRpc
                       ELSE IF ~ParamsValid THEN Message.invalidRequest
                       ELSE error
    /\ poolAddress' = IF cfg.urlPool THEN "url" ELSE poolAddress
    /\ loader' = IF ParamsValid THEN "metadata" ELSE loader
    /\ UNCHANGED <<cfg, env, hasRequestedLogin, needsTreasurySetup, flows,
                   remote, lastWrite>>
    /\ UNCHANGED <<waitVars, helper, call>>

Unmount ==
    /\ Mounted
    /\ lifecycle' = "unmounted"
    /\ UNCHANGED <<cfg, env, status, error, poolAddress, hasRequestedLogin,
                   needsTreasurySetup, loader, flows, remote,
                   lastWrite, passed>>
    /\ UNCHANGED <<waitVars, helper, call>>

\* the hooks' values change and the component re-renders with them
EnvChange(e) ==
    /\ Mounted
    /\ env' = e
    /\ AuthEffect(e)
    /\ UNCHANGED <<cfg, lifecycle, poolAddress, needsTreasurySetup, loader,
                   flows, remote, lastWrite>>
    /\ UNCHANGED <<waitVars, helper, call>>

\* usePrivy().ready turns true, with or without a restored session
PrivyReady ==
    /\ ~env.ready
    /\ \E a \in BOOLEAN, n \in 0..MaxWallets :
          /\ ~a => n = 0
          /\ EnvChange([ready |-> TRUE, authenticated |-> a, walletsLen |-> n])

\* login completes
LoginCompletes ==
    /\ env.ready /\ ~env.authenticated
    /\ \E n \in 0..MaxWallets :
          EnvChange([env EXCEPT !.authenticated = TRUE, !.walletsLen = n])

\* the session ends (logout, expiry)
SessionEnds ==
    /\ env.ready /\ env.authenticated
    /\ EnvChange([env EXCEPT !.authenticated = FALSE, !.walletsLen = 0])

\* the list of Solana wallets changes length
WalletsChange ==
    /\ env.ready /\ env.authenticated
    /\ \E n \in 0..MaxWallets :
          /\ n # env.walletsLen
          /\ EnvChange([env EXCEPT !.walletsLen = n])

\* what data.poolAddress of the operation record can be: missing or no
\* valid public key, a valid key, or the valid key that is the request's
\* userAddress
MetadataPools == {"none", "metadata", "metadataUser"}

\* the address came from the operation record
FromMetadata(address) == address \in {"metadata", "metadataUser"}

\* the address is the request's userAddress
IsUserAddress(address) == address = "metadataUser"

\* loadOperationMetadata settles (it catches its own errors), then
\* resolveWorldDetails begins with setNeedsTreasurySetup(false)
LoaderMetadataDone ==
    /\ loader = "metadata"
    /\ loader' = "world"
    /\ \E metadataPool \in MetadataPools :
          poolAddress' = IF metadataPool # "none"
                         THEN Set(poolAddress, metadataPool)
                         ELSE poolAddress
    /\ needsTreasurySetup' = Set(needsTreasurySetup, FALSE)
    /\ UNCHANGED <<cfg, env, lifecycle, status, error, hasRequestedLogin,
                   flows, remote, lastWrite, passed>>
    /\ UNCHANGED <<waitVars, helper, call>>

\* resolveWorldDetails settles: a candidate address, the earth fallback, no
\* address at all, or a rejected getDoc that nothing catches
LoaderWorldDone ==
    /\ loader = "world"
    /\ \E outcome \in {"resolved", "earth", "unresolved", "throws"} :
          /\ loader' = IF outcome = "throws" THEN "threw" ELSE "done"
          /\ poolAddress' =
                IF outcome = "resolved" THEN Set(poolAddress, "world")
                ELSE IF outcome = "earth" THEN Set(poolAddress, "earth")
                ELSE poolAddress
          /\ needsTreasurySetup' =
                IF outcome = "unresolved" THEN Set(needsTreasurySetup, TRUE)
                ELSE needsTreasurySetup
    /\ UNCHANGED <<cfg, env, lifecycle, status, error, hasRequestedLogin,
                   flows, remote, lastWrite, passed>>
    /\ UNCHANGED <<waitVars, helper, call>>

----------------------------------------------------------------------------
(* executeFunding (PoolBridge.tsx:1037-1523) and executeWithdrawal          *)
(* (PoolBridge.tsx:1525-1995).  A flow is one invocation; its fields other *)
(* than pc, kind and pendingMessage are history of what it met.             *)

\* what a wallet request can reject with: an Error with a code, and an Error
\* whose own message speaks of a timeout
PageWalletErrors ==
    {[kind |-> "error", isError |-> TRUE,
      message |-> <<"User", "rejected", "the", "request">>, code |-> <<"4001">>],
     [kind |-> "error", isError |-> TRUE,
      message |-> <<"Request", "timed", "out", "after", "30000", "ms">>,
      code |-> <<>>]}

\* formatSolanaError (PoolBridge.tsx:142-161), for an object with a message
FormatSolanaError(err) ==
    IF "code" \in DOMAIN err /\ err.code # <<>>
    THEN err.message \o <<"(", "code", ":">> \o err.code \o <<")">>
    ELSE err.message

\* /timed out after/i.test(sendError.message)
TimedOutPattern == <<"timed", "out", "after">>

\* `${label}: sendTransaction`
CreateLabel(kind) ==
    IF kind = "fund_pool" THEN <<"Create", "pool", "ATA">>
    ELSE <<"Create", "recipient", "ATA">>
TransferLabel(kind) ==
    IF kind = "fund_pool" THEN <<"Transfer", "to", "pool">>
    ELSE <<"Transfer", "to", "recipient">>
SendLabel(label) == label \o <<":", "sendTransaction">>

\* errorMessage.includes("Create pool ATA timed out") ||
\* errorMessage.includes("associated account still missing")
NeedsTreasury(kind, message) ==
    \/ Includes(message, CreateLabel(kind) \o <<"timed", "out">>)
    \/ Includes(message, <<"associated", "account", "still", "missing">>)

\* the outcome of waitForWalletResponse for a request that settles in one of
\* the three ways, by the wait's own callbacks
WaitOutcome(label, outcome, value) ==
    LET x == StartWait(label, WalletTimeoutMs, DefaultTickMs, 0)
    IN  IF outcome = "fulfilled" THEN OnFulfil(x, value, 0).wait.promise
        ELSE IF outcome = "rejected" THEN OnReject(x, value, 0).wait.promise
        ELSE OnTimeout(x, WalletTimeoutMs).wait.promise

\* the accounts as the flow reads them; a field stays unread once a check
\* before it has thrown
Canonical(f) ==
    /\ f.rpc # Unread
    /\ (f.mint = Unread) <=> (f.rpc = "fails")
    /\ (f.amount = Unread) <=> (f.mint \in {Unread, "missing"})
    /\ (f.source = Unread) <=> (f.amount \in {Unread, "invalid"})
    /\ (f.dest = Unread) <=> (f.source # "ok")

FactChoices ==
    {f \in [rpc : {"ok", "fails"}, mint : {Unread, "missing", "ok"},
            amount : {Unread, "invalid", "ok"},
            source : {Unread, "missing", "wrongOwner", "ok"},
            dest : {Unread, "missing", "wrongOwner", "ok"}] : Canonical(f)}

\* the outcomes the collaborators can give in this session
StoreOutcomes == IF cfg.reliable THEN {TRUE} ELSE BOOLEAN
SubmitOutcomes ==
    IF cfg.reliable THEN {"requested"}
    ELSE {"blockhashFails", "walletNotListed", "requested"}
WalletRejections == IF cfg.reliable THEN {} ELSE PageWalletErrors
CheckOutcomes ==
    IF cfg.reliable THEN {"found", "missing"}
    ELSE {"found", "missing", "throws"}
ConfirmOutcomes ==
    IF cfg.reliable THEN {"confirmed"}
    ELSE {"confirmed", "chainError", "throws"}
AccountFacts ==
    IF cfg.reliable
    THEN {f \in FactChoices :
            /\ f.rpc = "ok" /\ f.mint = "ok" /\ f.amount = "ok" /\ f.source = "ok"
            /\ f.dest \in {"missing", "ok"}}
    ELSE FactChoices

\* the checks without the owner test of the contributor's token account
PreflightErrorNoOwnerTest(kind, f) ==
    IF f.rpc = "fails" THEN Message.rpcFailed
    ELSE IF f.mint = "missing" THEN Message.mintMissing
    ELSE IF f.amount = "invalid" THEN Message.amountInvalid
    ELSE IF f.source = "missing" THEN Message.sourceMissing
    ELSE IF kind = "fund_pool" /\ f.dest = "wrongOwner"
    THEN Message.destinationNotSpl
    ELSE NoError

\* the checks of PoolBridge.tsx:1148-1234 and 1633-1716, in order
PreflightError(kind, f) ==
    IF f.rpc = "fails" THEN Message.rpcFailed
    ELSE IF f.mint = "missing" THEN Message.mintMissing
    ELSE IF f.amount = "invalid" THEN Message.amountInvalid
    ELSE IF f.source = "missing" THEN Message.sourceMissing
    ELSE IF f.source = "wrongOwner" THEN Message.sourceOwner
    ELSE IF kind = "fund_pool" /\ f.dest = "wrongOwner"
    THEN Message.destinationNotSpl
    ELSE NoError

----------------------------------------------------------------------------
(* The steps of a flow: one action per await. *)

CreateInstructions == <<"createAssociatedTokenAccountIdempotent">>
TransferInstructions == <<"transferChecked">>

InFlight(f) == flows[f].pc # "idle" /\ flows[f].outcome = "none"
Started(f) == flows[f].pc # "idle"

\* the catch of executeFunding / executeWithdrawal
Caught(f, fl, message) ==
    LET treasury == NeedsTreasury(fl.kind, message)
    IN  /\ flows' = [flows EXCEPT ![f] =
                [fl EXCEPT !.pc = "markFailed", !.errorMessage = message,
                           !.treasury = treasury, !.outcome = "failed",
                           !.failedAt = flows[f].pc]]
        /\ error' = Set(error,
                IF treasury
                THEN IF fl.kind = "fund_pool" THEN Message.treasuryNotReady
                     ELSE Message.recipientNotReady
                ELSE message)
        /\ needsTreasurySetup' =
                Set(needsTreasurySetup, treasury /\ fl.kind = "fund_pool")
        /\ SetStatus("failed")
        /\ UNCHANGED <<remote, lastWrite>>

\* the flow goes on to its next await
Proceed(f, fl) ==
    /\ flows' = [flows EXCEPT ![f] = fl]
    /\ UNCHANGED <<error, needsTreasurySetup, status, passed, remote, lastWrite>>

\* whether markOperation rejects when updateDoc does: its try/catch logs the
\* error and returns (PoolBridge.tsx:761-771)
MarkOperationRethrows(applied) == ~applied

MarkOperationRejects(applied) == FALSE

\* markOperation: updateDoc merges the fields given, or fails and is logged
RemoteWrite(f, st, hash, message, applied) ==
    /\ lastWrite' = [flow |-> f, status |-> st, transactionHash |-> hash]
    /\ remote' =
            IF applied
            THEN [status |-> st,
                  transactionHash |-> IF hash # NoSignature THEN hash
                                      ELSE remote.transactionHash,
                  error |-> IF message # NoError THEN message
                            ELSE remote.error]
            ELSE remote

\* a return before the try: setError, setStatus("failed")
PrecheckFails(f, wallet, message) ==
    /\ flows' = [flows EXCEPT ![f] =
            [@ EXCEPT !.pc = "done", !.kind = cfg.params, !.wallet = wallet,
                      !.errorMessage = message, !.outcome = "failed"]]
    /\ error' = Set(error, message)
    /\ SetStatus("failed")
    /\ UNCHANGED <<poolAddress, needsTreasurySetup>>

\* findWalletForAddresses: a wallet with a valid or an invalid address, or null
WalletChoices ==
    IF env.walletsLen = 0 THEN {"none"}
    ELSE IF cfg.reliable THEN {"ok"} ELSE {"ok", "invalid"}

\* isValidPublicKey(wallet.address)
WalletAddressUnchecked(wallet) == TRUE

WalletAddressValid(wallet) == wallet = "ok"

\* the button is rendered when authenticated && status === "ready"; the click
\* runs triggerAction up to the first await
Authorize(f) ==
    /\ Mounted /\ ParamsValid
    /\ env.authenticated /\ status = "ready"
    /\ flows[f].pc = "idle"
    /\ \A g \in FlowIds : g < f => flows[g].pc # "idle"
    /\ \E wallet \in WalletChoices :
        LET target == IF poolAddress # "none" THEN poolAddress
                      ELSE IF cfg.urlPool THEN "url" ELSE "none"
        IN  IF ~RpcUrl(cfg)
            THEN PrecheckFails(f, "unresolved", Message.missingRpc)
            ELSE IF wallet = "none"
            THEN PrecheckFails(f, wallet, Message.noWallet)
            ELSE IF ~WalletAddressValid(wallet)
            THEN PrecheckFails(f, wallet, Message.walletInvalid)
            ELSE IF cfg.params = "withdraw_pool" /\ ~cfg.recipientOk
            THEN PrecheckFails(f, wallet, Message.recipientInvalid)
            ELSE IF cfg.params = "fund_pool" /\ target = "none"
            THEN PrecheckFails(f, wallet, Message.noPool)
            ELSE /\ flows' = [flows EXCEPT ![f] =
                        [@ EXCEPT !.pc = "markProcessing",
                                  !.kind = cfg.params, !.wallet = wallet,
                                  !.target = target,
                                  !.loginRequested = hasRequestedLogin]]
                 /\ poolAddress' = target
                 /\ SetStatus("processing")
                 /\ needsTreasurySetup' = FALSE
                 /\ UNCHANGED error
    /\ UNCHANGED <<cfg, env, lifecycle, hasRequestedLogin, loader,
                   remote, lastWrite>>
    /\ UNCHANGED <<waitVars, helper, call>>

\* what no step of a running flow changes
FlowFrame ==
    /\ UNCHANGED <<cfg, env, lifecycle, poolAddress, hasRequestedLogin, loader>>
    /\ UNCHANGED <<waitVars, helper, call>>

\* await markOperation(operationId, { status: "processing", ... })
MarkProcessingDone(f) ==
    /\ flows[f].pc = "markProcessing"
    /\ \E applied \in StoreOutcomes :
          /\ RemoteWrite(f, "processing", NoSignature, NoError, applied)
          /\ flows' = [flows EXCEPT ![f] =
                IF MarkOperationRejects(applied)
                THEN [@ EXCEPT !.pc = "done", !.outcome = "threw"]
                ELSE [@ EXCEPT !.pc = "preflight"]]
    /\ UNCHANGED <<error, needsTreasurySetup, status, passed>>
    /\ FlowFrame

\* the account lookups and the amount conversion before any submission
PreflightDone(f) ==
    /\ flows[f].pc = "preflight"
    /\ \E facts \in AccountFacts :
          LET fl == [flows[f] EXCEPT !.facts = facts]
              message == PreflightError(fl.kind, facts)
          IN  IF message # NoError THEN Caught(f, fl, message)
              ELSE IF facts.dest = "missing"
              THEN Proceed(f, [fl EXCEPT !.pc = "createSubmit"])
              ELSE Proceed(f, [fl EXCEPT !.pc = "xferSubmit"])
    /\ FlowFrame

\* the catch around the wallet request inside sendInstructions
\* (PoolBridge.tsx:1297-1330, 1778-1812); only the creation passes an
\* onTimeoutCheck
SendCatchRetries(f, fl, err, step) ==
    LET message == FormatSolanaError(err)
    IN  IF /\ step = "create"
           /\ err.isError
           /\ Includes(err.message, TimedOutPattern)
        THEN Proceed(f, [fl EXCEPT !.pc = "createCheck",
                                   !.pendingMessage = message])
        ELSE IF Len(fl.requests) < 3
        THEN Proceed(f, [fl EXCEPT !.pc = IF step = "create"
                                          THEN "createSubmit" ELSE "xferSubmit"])
        ELSE Caught(f, fl, message)

SendCatch(f, fl, err, step) ==
    LET message == FormatSolanaError(err)
    IN  IF /\ step = "create"
           /\ err.isError
           /\ Includes(err.message, TimedOutPattern)
        THEN Proceed(f, [fl EXCEPT !.pc = "createCheck",
                                   !.pendingMessage = message])
        ELSE Caught(f, fl, message)

\* sendInstructions up to the wallet request
Submit(f, step) ==
    \E outcome \in SubmitOutcomes :
        IF outcome = "blockhashFails"
        THEN Caught(f, flows[f], Message.blockhashFailed)
        ELSE IF outcome = "walletNotListed"
        THEN Caught(f, flows[f], Message.walletNotFound)
        ELSE Proceed(f, [flows[f] EXCEPT
                    !.requests = Append(@, IF step = "create"
                                           THEN CreateInstructions
                                           ELSE TransferInstructions),
                    !.pc = IF step = "create" THEN "createWait"
                           ELSE "xferWait"])

CreateSubmit(f) ==
    /\ flows[f].pc = "createSubmit"
    /\ Submit(f, "create")
    /\ FlowFrame

\* createTransferCheckedWithTransferHookInstruction, then sendInstructions
TransferSubmit(f) ==
    /\ flows[f].pc = "xferSubmit"
    /\ \/ ~cfg.reliable /\ Caught(f, flows[f], Message.transferBuildFailed)
       \/ Submit(f, "xfer")
    /\ FlowFrame

\* where sendInstructions goes once the wallet returned a signature: to
\* await connection.confirmTransaction (PoolBridge.tsx:1337, 1819)
AfterSendReturns(step) ==
    IF step = "create" THEN "xferSubmit" ELSE "markCompleted"

AfterSend(step) ==
    IF step = "create" THEN "createConfirm" ELSE "xferConfirm"

\* the wait around signAndSendTransaction settles
WaitSettles(f, step, outcome, value) ==
    LET label == IF step = "create" THEN CreateLabel(flows[f].kind)
                 ELSE TransferLabel(flows[f].kind)
        promise == WaitOutcome(SendLabel(label), outcome, value)
        fl == IF step = "create"
              THEN [flows[f] EXCEPT !.createWait = outcome]
              ELSE [flows[f] EXCEPT !.xferWait = outcome]
    IN  IF promise.state = "fulfilled"
        THEN IF step = "create"
             THEN Proceed(f, [fl EXCEPT !.pc = AfterSend(step),
                                        !.createResult = promise.value.v])
             ELSE Proceed(f, [fl EXCEPT !.pc = AfterSend(step),
                                        !.xferSignature = promise.value.v])
        ELSE SendCatch(f, fl, promise.value, step)

\* a wait without its timeout timer
TimeoutArmedNever(step) == FALSE

\* const timeoutId = setTimeout(..., timeoutMs), with timeoutMs: 180000
\* (PoolBridge.tsx:374-387, 1288, 1769)
TimeoutArmed(step) == TRUE

WaitDone(f, step) ==
    \/ WaitSettles(f, step, "fulfilled", SignatureOf(f, Len(flows[f].requests)))
    \/ TimeoutArmed(step) /\ WaitSettles(f, step, "timeout", NoValue)
    \/ \E e \in WalletRejections : WaitSettles(f, step, "rejected", e)

CreateWaitDone(f) ==
    /\ flows[f].pc = "createWait"
    /\ WaitDone(f, "create")
    /\ FlowFrame

TransferWaitDone(f) ==
    /\ flows[f].pc = "xferWait"
    /\ WaitDone(f, "xfer")
    /\ FlowFrame

\* if (shouldContinue) return "timed-out"
ShouldContinueUnlessThrown(r) == r # "throws"

ShouldContinue(r) == r = "found"

\* onTimeoutCheck settles: the account is there, is not, or the lookup throws
CreateCheckDone(f) ==
    /\ flows[f].pc = "createCheck"
    /\ \E r \in CheckOutcomes :
          LET fl == [flows[f] EXCEPT !.recovery = r]
          IN  IF ShouldContinue(r)
              THEN Proceed(f, [fl EXCEPT !.pc = "xferSubmit",
                                         !.createResult = TimedOutPlaceholder])
              ELSE Caught(f, fl, fl.pendingMessage)
    /\ FlowFrame

\* what the confirmation step of sendInstructions throws: executeFunding
\* rethrows a failed confirmation (PoolBridge.tsx:1337-1369), executeWithdrawal
\* logs it (PoolBridge.tsx:1819-1837)
ConfirmErrorNever(kind, c) == NoError

ConfirmError(kind, c) ==
    IF kind # "fund_pool" THEN NoError
    ELSE IF c = "chainError" THEN Message.transactionFailed
    ELSE IF c = "throws" THEN FormatSolanaError(Thrown(TRUE, Message.confirmFailed))
    ELSE NoError

ConfirmDone(f, step) ==
    \E c \in ConfirmOutcomes :
        LET fl == IF step = "create"
                  THEN [flows[f] EXCEPT !.createConfirm = c]
                  ELSE [flows[f] EXCEPT !.xferConfirm = c]
            message == ConfirmError(fl.kind, c)
        IN  IF message # NoError THEN Caught(f, fl, message)
            ELSE Proceed(f, [fl EXCEPT !.pc =
                    IF step = "create" THEN "xferSubmit" ELSE "markCompleted"])

CreateConfirmDone(f) ==
    /\ flows[f].pc = "createConfirm"
    /\ ConfirmDone(f, "create")
    /\ FlowFrame

TransferConfirmDone(f) ==
    /\ flows[f].pc = "xferConfirm"
    /\ ConfirmDone(f, "xfer")
    /\ FlowFrame

\* the hash of the first transaction the operation submitted
TransactionHashOfFirst(fl) ==
    IF fl.createResult # NoSignature THEN fl.createResult
    ELSE fl.xferSignature

\* transactionHash: transferSignature (PoolBridge.tsx:1449, 1914)
TransactionHash(fl) == fl.xferSignature

\* await markOperation(... "completed" ...); if (!isMountedRef.current) return;
\* setStatus("success")
MarkCompletedDone(f) ==
    /\ flows[f].pc = "markCompleted"
    /\ \E applied \in StoreOutcomes :
          /\ RemoteWrite(f, "completed", TransactionHash(flows[f]), NoError,
                         applied)
          /\ IF MarkOperationRejects(applied)
             THEN /\ flows' = [flows EXCEPT ![f] =
                        [@ EXCEPT !.pc = "markFailed",
                                  !.errorMessage = Message.storeFailed,
                                  !.outcome = "failed",
                                  !.failedAt = "markCompleted"]]
                  /\ error' = Set(error, Message.storeFailed)
                  /\ SetStatus("failed")
             ELSE /\ flows' = [flows EXCEPT ![f] =
                        [@ EXCEPT !.pc = "done",
                                  !.outcome = IF Mounted THEN "success"
                                              ELSE "unmounted"]]
                  /\ SetStatus("success")
                  /\ UNCHANGED error
    /\ needsTreasurySetup' = Set(needsTreasurySetup, FALSE)
    /\ FlowFrame

\* await markOperation(... needsTreasurySetup ? "needs_treasury_setup" : "failed")
MarkFailedDone(f) ==
    /\ flows[f].pc = "markFailed"
    /\ \E applied \in StoreOutcomes :
          /\ RemoteWrite(f, IF flows[f].treasury THEN "needs_treasury_setup"
                            ELSE "failed",
                         NoSignature, flows[f].errorMessage, applied)
          /\ flows' = [flows EXCEPT ![f] =
                IF MarkOperationRejects(applied)
                THEN [@ EXCEPT !.pc = "done", !.outcome = "threw"]
                ELSE [@ EXCEPT !.pc = "done"]]
    /\ UNCHANGED <<error, needsTreasurySetup, status, passed>>
    /\ FlowFrame

----------------------------------------------------------------------------
(* SpecPage: page sessions with reliable collaborators whose store reads   *)
(* never settle, the button pressed any number of times.                   *)
(* SpecOp: page sessions with failing collaborators and at most one click. *)

InitSession(reliable) ==
    /\ now = 0
    /\ logEntries = <<>>
    /\ logSeq = 0
    /\ waits = [w \in WaitIds |-> IdleWait]
    /\ helper = IdleHelper
    /\ cfg \in {c \in Configs : c.reliable = reliable}
    /\ env = [ready |-> FALSE, authenticated |-> FALSE, walletsLen |-> 0]
    /\ lifecycle = "constructed"
    /\ status = "initializing"
    /\ error = NoError
    /\ poolAddress = "none"
    /\ hasRequestedLogin = FALSE
    /\ needsTreasurySetup = FALSE
    /\ loader = "idle"
    /\ flows = [f \in FlowIds |-> IdleFlow]
    /\ remote = NoDocument
    /\ lastWrite = NoWrite
    /\ passed = <<1, 1>>
    /\ call = NoCall

InitPage == InitSession(TRUE)
InitOp == InitSession(FALSE)

FlowSteps ==
    \E f \in FlowIds :
        \/ MarkProcessingDone(f)
        \/ PreflightDone(f)
        \/ CreateSubmit(f)
        \/ CreateWaitDone(f)
        \/ CreateCheckDone(f)
        \/ CreateConfirmDone(f)
        \/ TransferSubmit(f)
        \/ TransferWaitDone(f)
        \/ TransferConfirmDone(f)
        \/ MarkCompletedDone(f)
        \/ MarkFailedDone(f)

PageEvents ==
    \/ Mount
    \/ Unmount
    \/ PrivyReady
    \/ LoginCompletes
    \/ SessionEnds
    \/ WalletsChange

LoaderSteps ==
    \/ LoaderMetadataDone
    \/ LoaderWorldDone

NextPage == PageEvents \/ (\E f \in FlowIds : Authorize(f)) \/ FlowSteps

SpecPage == InitPage /\ [][NextPage]_vars

NextOp == PageEvents \/ LoaderSteps \/ Authorize(1) \/ FlowSteps

SpecOp == InitOp /\ [][NextOp]_vars

----------------------------------------------------------------------------
(* Claims about the page session. *)

Rank(s) ==
    CASE s = "initializing" -> 1
      [] s = "awaiting-auth" -> 2
      [] s = "ready" -> 3
      [] s = "processing" -> 4
      [] OTHER -> 5

\* C3: the status only moves forward along initializing, awaiting-auth, ready,
\* processing, (success | failed): no step takes it to an earlier state, and
\* success and failed are never left.
C3_StatusOnlyForward ==
    [][/\ Rank(status') >= Rank(status)
       /\ status \in {"success", "failed"} => status' = status]_vars

\* C4: at most one executeFunding / executeWithdrawal invocation is in flight
\* at any time, and at most one is ever started in a page session.
C4_AtMostOneInvocation ==
    /\ Cardinality({f \in FlowIds : InFlight(f)}) <= 1
    /\ Cardinality({f \in FlowIds : Started(f)}) <= 1

TransferRequested(f) ==
    \E i \in 1..Len(flows[f].requests) :
        flows[f].requests[i] = TransferInstructions
CreateRequested(f) ==
    \E i \in 1..Len(flows[f].requests) :
        flows[f].requests[i] = CreateInstructions

\* a funding that found the destination account, met no failing call and
\* set its terminal status on the mounted page
FundingSucceeded(f) ==
    /\ flows[f].kind = "fund_pool"
    /\ flows[f].pc = "done"
    /\ flows[f].outcome = "success"
    /\ flows[f].facts.dest = "ok"
    /\ flows[f].xferConfirm = "confirmed"

ScenarioResult(f) ==
    /\ flows[f].requests = <<TransferInstructions>>
    /\ lastWrite = [flow |-> f, status |-> "completed",
                    transactionHash |-> SignatureOf(f, 1)]

\* C5 as stated: such a funding makes exactly one sign-and-send request with
\* one transfer instruction, the status has passed through initializing,
\* awaiting-auth, ready, processing, success in that order, and the last
\* write to the remote record is 'completed' with the transfer's signature.
C5_ScenarioThroughAwaitingAuth ==
    \A f \in FlowIds :
        FundingSucceeded(f) =>
            /\ ScenarioResult(f)
            /\ passed[1] = Len(ScenarioOrder)

\* C5 amended: such a funding makes exactly one sign-and-send request with
\* one transfer instruction, the status has passed through initializing,
\* ready, processing, success in that order, with awaiting-auth between
\* initializing and ready when the page had prompted a login before the
\* button was pressed, and the last write to the remote record is
\* 'completed' with the transfer's signature.
C5_FundingScenario ==
    \A f \in FlowIds :
        FundingSucceeded(f) =>
            /\ ScenarioResult(f)
            /\ passed[2] = Len(DirectOrder)
            /\ flows[f].loginRequested => passed[1] = Len(ScenarioOrder)

\* C5 witness: a funding of a session that had to log in has succeeded.
C5_Witness ==
    /\ FundingSucceeded(1)
    /\ flows[1].loginRequested
    /\ status = "success"
    /\ remote.status = "completed"

\* C6: when the account-creation submission of a funding timed out, the
\* recovery check decides: the account found, the flow goes on to the
\* transfer; the account still missing, the operation is blocked on treasury
\* setup (the flag is set and the record gets 'needs_treasury_setup').
C6_TimeoutCheckDecides ==
    \A f \in FlowIds :
        (flows[f].kind = "fund_pool" /\ flows[f].createWait = "timeout") =>
            /\ flows[f].recovery = "found" =>
                    flows[f].createResult = TimedOutPlaceholder
            /\ flows[f].recovery = "missing" =>
                    /\ flows[f].treasury
                    /\ flows[f].pc = "done" =>
                            lastWrite.status = "needs_treasury_setup"

\* C7 as stated: with the destination account missing, the transfer is
\* submitted only after the creation was submitted and then confirmed, or
\* found on chain by the recovery check.
C7_TransferAfterConfirmedCreation ==
    \A f \in FlowIds :
        (flows[f].facts.dest = "missing" /\ TransferRequested(f)) =>
            /\ flows[f].requests = <<CreateInstructions, TransferInstructions>>
            /\ \/ flows[f].createConfirm = "confirmed"
               \/ flows[f].recovery = "found"

\* C7 amended: with the destination account missing, the transfer is
\* submitted only after the creation was submitted and either the recovery
\* check found the account on chain or the wallet returned the creation's
\* signature and, in a funding, its confirmation succeeded (a withdrawal
\* goes on whatever the confirmation says); no creation is submitted when the
\* account exists.
C7_TransferAfterCreation ==
    \A f \in FlowIds :
        /\ (flows[f].facts.dest = "missing" /\ TransferRequested(f)) =>
            /\ flows[f].requests = <<CreateInstructions, TransferInstructions>>
            /\ \/ flows[f].recovery = "found"
               \/ /\ flows[f].createWait = "fulfilled"
                  /\ flows[f].createResult = SignatureOf(f, 1)
                  /\ flows[f].kind = "fund_pool" =>
                        flows[f].createConfirm = "confirmed"
        /\ CreateRequested(f) => flows[f].facts.dest = "missing"

\* C7 witness: a funding whose creation was confirmed has submitted the
\* transfer.
C7_Witness ==
    /\ flows[1].kind = "fund_pool"
    /\ flows[1].facts.dest = "missing"
    /\ flows[1].createConfirm = "confirmed"
    /\ flows[1].requests = <<CreateInstructions, TransferInstructions>>

\* C8: a submission that timed out counts as a success only if a recovery
\* check ran for it and found the expected state; a timed-out transfer (no
\* check), a check that finds the account missing and a check that throws
\* fail the operation.
C8_TimeoutNeedsRecovery ==
    \A f \in FlowIds :
        /\ flows[f].createResult = TimedOutPlaceholder =>
                flows[f].recovery = "found"
        /\ (flows[f].createWait = "timeout" /\ flows[f].pc # "createCheck") =>
                \/ flows[f].recovery = "found"
                \/ flows[f].outcome = "failed" /\ ~TransferRequested(f)
        /\ flows[f].recovery \in {"missing", "throws"} =>
                /\ flows[f].outcome = "failed"
                /\ flows[f].failedAt = "createCheck"
                /\ ~TransferRequested(f)
        /\ flows[f].xferWait = "timeout" =>
                /\ flows[f].outcome = "failed"
                /\ flows[f].failedAt = "xferWait"
                /\ flows[f].xferSignature = NoSignature

\* C8 witness: the creation timed out, the check found the account, and the
\* operation went on to succeed.
C8_Witness ==
    /\ flows[1].createWait = "timeout"
    /\ flows[1].createResult = TimedOutPlaceholder
    /\ flows[1].outcome = "success"

\* C9: in every submission path a failed confirmation of a transaction that
\* was broadcast is only logged: the submission returns the signature and
\* the operation does not fail by it.
C9_ConfirmFailureOnlyLogged ==
    /\ \A f \in FlowIds :
            flows[f].failedAt \notin {"createConfirm", "xferConfirm"}
    /\ helper.confirm \in {"chainError", "throws"} =>
            /\ helper.result = helper.inner
            /\ helper.result.state = "fulfilled"

\* C11: a flow asks the wallet to sign and send at most once for the account
\* creation and at most once for the transfer, each submission that reached
\* the wallet being one request; a request that was rejected or timed out is
\* not made again (the operation fails, or, for a creation whose error speaks
\* of a timeout and whose account the recovery check finds, goes on to the
\* transfer), and the page
\* never uses the sign-only request or the raw broadcast of the helper.
C11_OneSignAndSendPerSubmission ==
    /\ \A f \in FlowIds :
        LET fl == flows[f]
        IN  /\ fl.requests \in {<<>>, <<CreateInstructions>>,
                                <<TransferInstructions>>,
                                <<CreateInstructions, TransferInstructions>>}
            /\ fl.createWait # "none" => CreateRequested(f)
            /\ fl.xferWait # "none" => TransferRequested(f)
            /\ (/\ fl.createWait \in {"rejected", "timeout"}
                /\ fl.pc # "createCheck"
                /\ fl.recovery # "found") =>
                    /\ fl.requests = <<CreateInstructions>>
                    /\ fl.outcome = "failed"
            /\ fl.xferWait \in {"rejected", "timeout"} =>
                    /\ fl.outcome = "failed"
                    /\ fl.xferSignature = NoSignature
    /\ helper = IdleHelper
    /\ \A w \in WaitIds : ~waits[w].called

\* C11 witness: the creation went through, the wallet rejected the transfer
\* and the operation failed with the two requests made.
C11_Witness ==
    /\ flows[1].createWait = "fulfilled"
    /\ flows[1].xferWait = "rejected"
    /\ flows[1].pc = "done"
    /\ flows[1].outcome = "failed"
    /\ flows[1].requests = <<CreateInstructions, TransferInstructions>>

\* C13: an invocation that has ended with status 'failed' has written the
\* failure to the remote record: its last write carries 'failed' or
\* 'needs_treasury_setup'.
C13_FailureIsRecorded ==
    \A f \in FlowIds :
        (flows[f].pc = "done" /\ flows[f].outcome = "failed") =>
            /\ lastWrite.flow = f
            /\ lastWrite.status \in {"failed", "needs_treasury_setup"}

\* C14: no asynchronous flow of the page ends with a rejection that nothing
\* catches, and every failure of one has set an error message with the
\* status 'failed'.
C14_NoFailureEscapes ==
    /\ loader # "threw"
    /\ \A f \in FlowIds :
            /\ flows[f].outcome # "threw"
            /\ flows[f].outcome = "failed" => flows[f].errorMessage # NoError

MarkSteps == {"markProcessing", "markCompleted", "markFailed"}

\* C15: markOperation never rejects, so no invocation fails at a write of the
\* record; whether or not the write was applied, the write of 'processing' is
\* followed by the checks and the submission, the write of 'completed' by the
\* status 'success' on the mounted page, and the write of a failure leaves
\* status and error as the catch set them.
C15_WriteFailureNeverEscalates ==
    /\ [](\A f \in FlowIds :
            /\ flows[f].outcome # "threw"
            /\ flows[f].failedAt \notin MarkSteps)
    /\ [][\A f \in FlowIds :
            LET a == flows[f]
                b == flows'[f]
            IN  /\ (a.pc = "markProcessing" /\ b.pc # a.pc) =>
                        /\ b.pc = "preflight"
                        /\ status' = status /\ error' = error
                /\ (a.pc = "markCompleted" /\ b.pc # a.pc) =>
                        /\ b.pc = "done"
                        /\ Mounted => (b.outcome = "success"
                                        /\ status' = "success")
                /\ (a.pc = "markFailed" /\ b.pc # a.pc) =>
                        /\ b.pc = "done" /\ b.outcome = "failed"
                        /\ status' = status /\ error' = error]_vars

\* C15 witness: neither the write of 'processing' nor the write of
\* 'completed' was applied, and the operation succeeded with a signature.
C15_Witness ==
    /\ flows[1].outcome = "success"
    /\ status = "success"
    /\ flows[1].xferSignature = SignatureOf(1, 1)
    /\ lastWrite.status = "completed"
    /\ remote = NoDocument

----------------------------------------------------------------------------
(* parseParams (PoolBridge.tsx:163-194) and the page of an invalid request. *)
(* A query field is absent or has a text; the texts of amount are strings   *)
(* over the characters 0 1 . - a, the blank and the word Infinity, for      *)
(* which Number() is modelled in full (no exponent, no radix prefix).       *)

Absent == [has |-> FALSE, text |-> <<>>]
Text(s) == [has |-> TRUE, text |-> s]

\* !value, for string | null
FalsyOnlyAbsent(x) == ~x.has

Falsy(x) == ~x.has \/ x.text = <<>>

\* Number(string): a blank string is 0, then an optional sign before Infinity
\* or before digits with at most one point and at least one digit; else NaN
ToNumber(s) ==
    LET t == Trim(s)
        signed == Len(t) > 0 /\ t[1] \in {"+", "-"}
        u == IF signed THEN Tail(t) ELSE t
        parts == SplitAtPoint(u)
        digits == IF Len(parts) = 1 THEN parts[1] ELSE parts[1] \o parts[2]
        n == [kind |-> "number", negative |-> signed /\ t[1] = "-",
              mantissa |-> 0, scale |-> 0]
    IN  IF t = <<>> THEN n
        ELSE IF u = <<"Infinity">> THEN [n EXCEPT !.kind = "Infinity"]
        ELSE IF digits # <<>> /\ IsDigits(digits)
        THEN [n EXCEPT !.mantissa = DigitsValue(digits),
                       !.scale = IF Len(parts) = 1 THEN 0 ELSE Len(parts[2])]
        ELSE [n EXCEPT !.kind = "NaN"]

\* Number.isFinite(amount) && amount > 0
FinitePositive(n) == n.kind = "number" /\ ~n.negative /\ n.mantissa > 0

RequiredFields == {"worldId", "tokenMint", "userAddress", "operationId"}
ALLOWED_ACTIONS == {<<"fund_pool">>, <<"withdraw_pool">>}
InvalidParams == [valid |-> FALSE, action |-> <<>>, amountRaw |-> <<>>]

ParseParams(query) ==
    IF Falsy(query.action) \/ query.action.text \notin ALLOWED_ACTIONS
    THEN InvalidParams
    ELSE IF \/ \E k \in RequiredFields : Falsy(query[k])
            \/ Falsy(query.amount)
    THEN InvalidParams
    ELSE IF ~FinitePositive(ToNumber(query.amount.text)) THEN InvalidParams
    ELSE [valid |-> TRUE, action |-> query.action.text,
          amountRaw |-> query.amount.text]

\* longest amount text of a query tried
MaxQueryAmountLen == 2

QueryAmountChars == {"0", "1", ".", "-", "a", " "}
QueryAmounts ==
    UNION {[1..n -> QueryAmountChars] : n \in 0..MaxQueryAmountLen}
        \cup {<<"Infinity">>, <<"-", "Infinity">>}

Queries ==
    [action : {Absent, Text(<<>>), Text(<<"fund_pool">>),
               Text(<<"withdraw_pool">>), Text(<<"swap_pool">>)},
     worldId : {Absent, Text(<<>>), Text(<<"earth">>)},
     tokenMint : {Absent, Text(<<>>), Text(<<"M">>)},
     userAddress : {Absent, Text(<<>>), Text(<<"U">>)},
     operationId : {Absent, Text(<<>>), Text(<<"OP">>)},
     amount : {Absent} \cup {Text(a) : a \in QueryAmounts}]

\* the component function runs for the first time: useMemo(parseParams)
ParseCall ==
    /\ lifecycle = "absent"
    /\ lifecycle' = "constructed"
    /\ \E query \in Queries, c \in Configs :
          LET parsed == ParseParams(query)
          IN  /\ c.reliable
              /\ c.params = IF parsed.valid THEN parsed.action[1] ELSE "invalid"
              /\ cfg' = c
              /\ call' = [n |-> call.n + 1, fn |-> "parseParams",
                          args |-> query, result |-> parsed]
    /\ UNCHANGED <<env, status, error, poolAddress, hasRequestedLogin,
                   needsTreasurySetup, loader, flows, remote, lastWrite,
                   passed>>
    /\ UNCHANGED <<waitVars, helper>>

\* what the component returns (PoolBridge.tsx:2051-2065)
View == IF ParamsValid THEN <<"bridge">> ELSE Message.missingParameters

NextParse == ParseCall \/ PageEvents \/ LoaderSteps \/ Authorize(1)

SpecParse == InitHelper /\ [][NextParse]_vars

\* C16: parseParams returns null whenever action is absent or is neither
\* fund_pool nor withdraw_pool, or one of worldId, tokenMint, amount,
\* userAddress, operationId is absent or empty, or Number(amount) is not a
\* finite number above zero; with a null result the mounted page has status
\* 'failed', shows the fixed missing-parameters text, and has started no
\* login, no read of the store and no operation.
C16_InvalidRequestFails ==
    call.fn = "parseParams" =>
        LET q == call.args
            n == ToNumber(q.amount.text)
            invalid ==
                \/ ~q.action.has
                \/ q.action.text \notin {<<"fund_pool">>, <<"withdraw_pool">>}
                \/ \E k \in RequiredFields \cup {"amount"} :
                        ~q[k].has \/ Len(q[k].text) = 0
                \/ n.kind # "number"
                \/ n.negative
                \/ n.mantissa = 0
        IN  /\ invalid => ~call.result.valid
            /\ ~call.result.valid =>
                    /\ ~ParamsValid
                    /\ View = Message.missingParameters
                    /\ lifecycle \in {"mounted", "unmounted"} =>
                            status = "failed"
                    /\ ~hasRequestedLogin
                    /\ loader = "idle"
                    /\ remote = NoDocument
                    /\ \A f \in FlowIds : flows[f] = IdleFlow

\* C16 witness: a complete request whose amount is -1 was parsed as invalid;
\* the page is mounted, the provider is ready, and the status is 'failed'.
C16_Witness ==
    /\ call.fn = "parseParams"
    /\ call.args.action = Text(<<"fund_pool">>)
    /\ \A k \in RequiredFields : ~Falsy(call.args[k])
    /\ call.args.amount = Text(<<"-", "1">>)
    /\ ~call.result.valid
    /\ Mounted /\ env.ready
    /\ status = "failed"

----------------------------------------------------------------------------
(* findWalletForAddresses (PoolBridge.tsx:723-757) with the lists useAuth   *)
(* gives it (solanaTransactionHelper.ts:371-397).                           *)

\* most wallets the provider's hook lists, most linked accounts, longest list
\* of preferred addresses
MaxHookWallets == 2
MaxLinkedAccounts == 2
MaxPreferred == 2

WalletAddresses == {"A", "B"}
NoWallet == [address |-> "", source |-> "none", type |-> "none"]
SeqsUpTo(S, n) == UNION {[1..k -> S] : k \in 0..n}

\* useConnectedStandardWallets().wallets and user.linkedAccounts (the Solana
\* wallet accounts)
HookWallets ==
    SeqsUpTo([address : WalletAddresses, source : {"hook"},
              type : {"solana", "ethereum"}], MaxHookWallets)
LinkedAccounts ==
    SeqsUpTo([address : WalletAddresses,
              walletClientType : {"privy", "phantom"}], MaxLinkedAccounts)
\* an entry of the preferred list: an address, or "" for undefined / null
PreferredLists == SeqsUpTo(WalletAddresses \cup {""}, MaxPreferred)

\* useAuth: wallets is the hook's Solana wallets or, when it has none, the
\* linked accounts; activeWallet is the hook's first wallet of any type
UseAuth(hook, linked) ==
    LET fromHook == SelectSeq(hook, LAMBDA w : w.type = "solana")
        fromLinked == [i \in 1..Len(linked) |->
                        [address |-> linked[i].address, source |-> "linked",
                         type |-> "solana"]]
    IN  [wallets |-> IF Len(fromHook) > 0 THEN fromHook ELSE fromLinked,
         activeWallet |-> IF Len(hook) > 0 THEN hook[1] ELSE NoWallet]

\* accountMetadataByAddress.get(address)?.embedded === true: the last linked
\* account of an address decides (PoolBridge.tsx:220-246)
Embedded(linked, address) ==
    LET of == {i \in 1..Len(linked) : linked[i].address = address}
    IN  /\ of # {}
        /\ linked[CHOOSE i \in of : \A j \in of : j <= i].walletClientType
                = "privy"

\* Array.prototype.find, hits being the positions whose element satisfies
\* the test: the first such element, or NoWallet
Find(wallets, hits) ==
    IF hits = {} THEN NoWallet
    ELSE wallets[CHOOSE i \in hits : \A j \in hits : i <= j]

RECURSIVE FirstPreferred(_, _)
FirstPreferred(preferred, wallets) ==
    IF preferred = <<>> THEN NoWallet
    ELSE LET candidate == Head(preferred)
             wallet ==
                 Find(wallets,
                      {i \in 1..Len(wallets) : wallets[i].address = candidate})
         IN  IF candidate # "" /\ wallet # NoWallet THEN wallet
             ELSE FirstPreferred(Tail(preferred), wallets)

FindWalletForAddresses(preferred, solanaWallets, linked, authActiveWallet) ==
    LET matched == FirstPreferred(preferred, solanaWallets)
        embeddedWallet ==
            Find(solanaWallets,
                 {i \in 1..Len(solanaWallets) :
                     Embedded(linked, solanaWallets[i].address)})
    IN  IF matched # NoWallet THEN matched
        ELSE IF embeddedWallet # NoWallet THEN embeddedWallet
        ELSE IF authActiveWallet # NoWallet THEN authActiveWallet
        ELSE IF Len(solanaWallets) > 0 THEN solanaWallets[1]
        ELSE NoWallet

FindWalletCall ==
    /\ call = NoCall
    /\ \E hook \in HookWallets, linked \in LinkedAccounts,
          preferred \in PreferredLists :
          LET auth == UseAuth(hook, linked)
          IN  call' = [n |-> 1, fn |-> "findWalletForAddresses",
                       args |-> [preferred |-> preferred,
                                 solanaWallets |-> auth.wallets,
                                 linked |-> linked,
                                 authActiveWallet |-> auth.activeWallet],
                       result |-> FindWalletForAddresses(preferred,
                                    auth.wallets, linked, auth.activeWallet)]
    /\ UNCHANGED <<cfg, env, lifecycle, status, error, poolAddress,
                   hasRequestedLogin, needsTreasurySetup, loader, flows,
                   remote, lastWrite, passed>>
    /\ UNCHANGED <<waitVars, helper>>

SpecWallet == InitHelper /\ [][FindWalletCall]_vars

\* C17: with the connected wallets being the list the function searches
\* (solanaWallets), the result is the wallet whose address is the earliest
\* preferred entry that matches one of them; else the first of them flagged
\* embedded; else the first of them; it is null only when no wallet is
\* available at all.
C17_WalletPrecedence ==
    call.fn = "findWalletForAddresses" =>
        LET a == call.args
            ws == a.solanaWallets
            r == call.result
            Listed(x) == \E j \in 1..Len(ws) : ws[j].address = x
            matches == {i \in 1..Len(a.preferred) :
                            a.preferred[i] # "" /\ Listed(a.preferred[i])}
            embedded == {j \in 1..Len(ws) : Embedded(a.linked, ws[j].address)}
        IN  /\ matches # {} =>
                    r.address =
                        a.preferred[CHOOSE i \in matches :
                                        \A k \in matches : i <= k]
            /\ (matches = {} /\ embedded # {}) =>
                    r = ws[CHOOSE j \in embedded : \A k \in embedded : j <= k]
            /\ (matches = {} /\ embedded = {} /\ Len(ws) > 0) => r = ws[1]
            /\ r = NoWallet =>
                    (Len(ws) = 0 /\ a.authActiveWallet = NoWallet)

----------------------------------------------------------------------------
(* toBaseUnits (PoolBridge.tsx:113-140). *)

\* longest amount text and largest number of decimals tried
MaxAmountLen == 4
MaxDecimals == 2

AmountChars == {"0", "1", "9", ".", " ", "-"}
AmountTexts == SeqsUpTo(AmountChars, MaxAmountLen)

RECURSIVE Pow10(_)
Pow10(n) == IF n = 0 THEN 1 ELSE 10 * Pow10(n - 1)

\* DECIMAL_PATTERN.test: /^\d+(\.\d+)?$/
MatchesDecimal(s) ==
    LET parts == SplitAtPoint(s)
    IN  /\ parts[1] # <<>> /\ IsDigits(parts[1])
        /\ Len(parts) = 2 => (parts[2] # <<>> /\ IsDigits(parts[2]))

\* the fraction digits kept: fractionComponent after the truncation
FractionComponentUncut(fractionPart, decimals) == fractionPart

FractionComponent(fractionPart, decimals) ==
    IF Len(fractionPart) > decimals
    THEN SubSeq(fractionPart, 1, decimals)
    ELSE fractionPart

\* String.prototype.padEnd(decimals, "0")
PadEnd(s, n) == s \o [i \in 1..(IF n > Len(s) THEN n - Len(s) ELSE 0) |-> "0"]

\* .replace(/^0+(?=\d)/, ""): leading zeros go, the last digit stays
RECURSIVE StripLeadingZeros(_)
StripLeadingZeros(s) ==
    IF Len(s) > 1 /\ s[1] = "0" THEN StripLeadingZeros(Tail(s)) ELSE s

\* the call with an onWarn that counts its invocations
ToBaseUnits(amountRaw, decimals) ==
    LET normalized == Trim(amountRaw)
        parts == SplitAtPoint(normalized)
        wholePart == parts[1]
        fractionPart == IF Len(parts) = 2 THEN parts[2] ELSE <<>>
        digitString ==
            StripLeadingZeros(
                wholePart \o PadEnd(FractionComponent(fractionPart, decimals),
                                    decimals))
    IN  IF ~MatchesDecimal(normalized)
        THEN [threw |-> TRUE, value |-> 0, warnings |-> 0]
        ELSE [threw |-> FALSE,
              value |-> DigitsValue(digitString),
              warnings |-> IF Len(fractionPart) > decimals THEN 1 ELSE 0]

ToBaseUnitsCall ==
    /\ call = NoCall
    /\ \E amountRaw \in AmountTexts, decimals \in 0..MaxDecimals :
          call' = [n |-> 1, fn |-> "toBaseUnits",
                   args |-> [amountRaw |-> amountRaw, decimals |-> decimals],
                   result |-> ToBaseUnits(amountRaw, decimals)]
    /\ UNCHANGED <<cfg, env, lifecycle, status, error, poolAddress,
                   hasRequestedLogin, needsTreasurySetup, loader, flows,
                   remote, lastWrite, passed>>
    /\ UNCHANGED <<waitVars, helper>>

SpecAmount == InitHelper /\ [][ToBaseUnitsCall]_vars

\* C18: for an amount that, blanks around it aside, is digits or digits, a
\* point and digits, toBaseUnits returns floor(amount * 10^decimals) and
\* calls the warning callback once when the fraction has more digits than
\* decimals and never otherwise; for every other text it throws.
C18_TruncatesToBaseUnits ==
    call.fn = "toBaseUnits" =>
        LET raw == call.args.amountRaw
            decimals == call.args.decimals
            r == call.result
            text == SelectSeq(raw, LAMBDA ch : ch # " ")
            blanksOutside ==
                \A i, j \in 1..Len(raw) :
                    (i < j /\ raw[i] # " " /\ raw[j] # " ") =>
                        \A k \in i..j : raw[k] # " "
            points == {i \in 1..Len(text) : text[i] = "."}
            digits == SelectSeq(text, LAMBDA ch : ch # ".")
            fractionLen == IF points = {} THEN 0
                           ELSE Len(text) - (CHOOSE i \in points : TRUE)
            decimal ==
                /\ blanksOutside
                /\ Cardinality(points) <= 1
                /\ IsDigits(digits)
                /\ Len(text) > 0 /\ text[1] # "." /\ text[Len(text)] # "."
        IN  IF decimal
            THEN /\ ~r.threw
                 /\ r.value =
                        (DigitsValue(digits) * Pow10(decimals))
                            \div Pow10(fractionLen)
                 /\ r.warnings = IF fractionLen > decimals THEN 1 ELSE 0
            ELSE r.threw

\* C18 witness: 1.99 with one decimal gives 19, not 20, with one warning.
C18_Witness ==
    /\ call.fn = "toBaseUnits"
    /\ call.args = [amountRaw |-> <<"1", ".", "9", "9">>, decimals |-> 1]
    /\ call.result = [threw |-> FALSE, value |-> 19, warnings |-> 1]

----------------------------------------------------------------------------
(* appendLog called on its own (PoolBridge.tsx:274-337). *)

\* number of appendLog calls of one behaviour
MaxLogCalls == 3

LogKey == <<"k">>
LogMessages == {<<"A">>, <<" ", "A">>, <<"B">>}
LogLevels == {"info", "warn"}
LogKeys == {NoKey, LogKey}

\* the log after n appends at time 0 of which no two in a row dedupe:
\* the first one keyed, the others alternating between two messages
FilledLog(n) ==
    [i \in 1..n |->
        [id |-> <<0, i - 1>>, timestamp |-> 0, level |-> "info",
         message |-> IF i % 2 = 1 THEN <<"A">> ELSE <<"B">>,
         count |-> 1, context |-> NoContext,
         onceKey |-> IF i = 1 THEN LogKey ELSE NoKey]]

LogSizes == {0, 1, MAX_LOG_ENTRIES - 1, MAX_LOG_ENTRIES}

InitLog ==
    /\ now = 0
    /\ \E n \in LogSizes : logEntries = FilledLog(n) /\ logSeq = n
    /\ waits = [w \in WaitIds |-> IdleWait]
    /\ helper = IdleHelper
    /\ PageAbsent

AppendLogCall ==
    /\ call.n < MaxLogCalls
    /\ now' = now + ClockStepMs
    /\ \E message \in LogMessages, level \in LogLevels, onceKey \in LogKeys :
          /\ logEntries' = AppendLogEntries(logEntries, message, level,
                                            NoContext, onceKey, now', logSeq)
          /\ logSeq' = IF AppendLogCreates(logEntries, message, level, onceKey)
                       THEN logSeq + 1 ELSE logSeq
          /\ call' = [n |-> call.n + 1, fn |-> "appendLog",
                      args |-> [message |-> message, level |-> level,
                                onceKey |-> onceKey]]
    /\ UNCHANGED <<cfg, env, lifecycle, status, error, poolAddress,
                   hasRequestedLogin, needsTreasurySetup, loader, flows,
                   remote, lastWrite, passed>>
    /\ UNCHANGED <<waits, helper>>

SpecLog == InitLog /\ [][AppendLogCall]_vars

\* entries i of the log before and j of the log after are the same entry
\* with a new timestamp and one more occurrence
Bumped(i, j) ==
    /\ logEntries'[j].id = logEntries[i].id
    /\ logEntries'[j].level = logEntries[i].level
    /\ logEntries'[j].onceKey = logEntries[i].onceKey
    /\ logEntries'[j].timestamp = now'
    /\ logEntries'[j].count = logEntries[i].count + 1

\* the de-duplication target of the call recorded in call', 0 for none:
\* the entry carrying the key, or for a call without key the last entry
\* when its text (the blanks around the new text removed) and level agree
DedupeTarget ==
    LET a == call'.args
        n == Len(logEntries)
        holders == {i \in 1..n : logEntries[i].onceKey = a.onceKey}
    IN  IF a.onceKey # NoKey
        THEN IF holders = {} THEN 0 ELSE CHOOSE i \in holders : TRUE
        ELSE IF /\ n > 0
                /\ logEntries[n].message = Trim(a.message)
                /\ logEntries[n].level = a.level
        THEN n ELSE 0

\* C19: an append without key whose text (blanks around it removed) and
\* level equal those of the last entry, or with a key that an entry
\* carries, keeps the number of entries, sets that entry's timestamp to the
\* new one, adds one to its count and leaves the other entries alone; any
\* other append adds exactly one entry, with count 1, at the end.
C19_DedupeOrAppend ==
    [][LET a == call'.args
           n == Len(logEntries)
           m == Len(logEntries')
           t == DedupeTarget
       IN  IF t > 0
           THEN /\ m = n
                /\ Bumped(t, t)
                /\ \A i \in 1..n : i # t => logEntries'[i] = logEntries[i]
           ELSE /\ m > 0
                /\ logEntries'[m].count = 1
                /\ logEntries'[m].message = Trim(a.message)
                /\ logEntries'[m].level = a.level
                /\ logEntries'[m].onceKey = a.onceKey
                /\ logEntries'[m].timestamp = now'
                /\ \A i \in 1..n : logEntries[i].id # logEntries'[m].id
                /\ \/ SubSeq(logEntries', 1, m - 1) = logEntries
                   \/ /\ n > 0
                      /\ SubSeq(logEntries', 1, m - 1) = Tail(logEntries)]_vars

\* C19 witness: a keyed call has updated the first entry, a differing
\* message has been appended after it and then updated by its repetition.
C19_Witness ==
    /\ call.fn = "appendLog" /\ call.n = MaxLogCalls
    /\ Len(logEntries) = 2
    /\ logEntries[1].onceKey = LogKey /\ logEntries[1].count = 2
    /\ logEntries[2].onceKey = NoKey /\ logEntries[2].count = 2
    /\ logEntries[1].timestamp < logEntries[2].id[1]
    /\ logEntries[2].id[1] < logEntries[2].timestamp

\* C20: the log never holds more than MAX_LOG_ENTRIES entries; a new
\* entry appended to a full log removes the oldest entry and no other, and
\* an update in place removes none.
C20_BoundedLog ==
    /\ [](Len(logEntries) <= MAX_LOG_ENTRIES)
    /\ [][IF DedupeTarget > 0
           THEN /\ Len(logEntries') = Len(logEntries)
                /\ \A i \in 1..Len(logEntries) :
                      logEntries'[i].id = logEntries[i].id
           ELSE IF Len(logEntries) = MAX_LOG_ENTRIES
           THEN /\ Len(logEntries') = MAX_LOG_ENTRIES
                /\ SubSeq(logEntries', 1, MAX_LOG_ENTRIES - 1) = Tail(logEntries)
                /\ \A i \in 1..MAX_LOG_ENTRIES :
                      logEntries'[i].id # logEntries[1].id
           ELSE SubSeq(logEntries', 1, Len(logEntries)) = logEntries]_vars

\* C20 witness: a full log whose two oldest entries have been evicted, one
\* of them the keyed entry, and whose last entry was then updated in place.
C20_Witness ==
    /\ call.fn = "appendLog" /\ call.n = MaxLogCalls
    /\ Len(logEntries) = MAX_LOG_ENTRIES
    /\ logEntries[1].id = <<0, 2>>
    /\ logEntries[MAX_LOG_ENTRIES].count = 2
    /\ logEntries[MAX_LOG_ENTRIES].timestamp = now

----------------------------------------------------------------------------
(* Further claims about the page session. *)

\* C22: without an RPC endpoint URL the first commit of the page leaves
\* status 'failed' and the error 'Missing RPC configuration. Please contact
\* support.'; pressing the button then sets both again, and the invocation
\* ends there: no account is looked up, no wallet request is made and
\* nothing is written to the remote record.
C22_MissingRpcFailsAtOnce ==
    /\ [][(~cfg.rpcUrl /\ lifecycle = "constructed" /\ lifecycle' = "mounted")
            => (status' = "failed" /\ error' = Message.missingRpc)]_vars
    /\ [][\A f \in FlowIds :
            (~cfg.rpcUrl /\ ~Started(f) /\ Started(f)') =>
                /\ status' = "failed"
                /\ error' = Message.missingRpc
                /\ flows'[f].pc = "done"
                /\ flows'[f].outcome = "failed"]_vars
    /\ [](~cfg.rpcUrl =>
            /\ lastWrite = NoWrite
            /\ remote = NoDocument
            /\ \A f \in FlowIds :
                /\ flows[f].facts = NoFacts
                /\ flows[f].requests = <<>>
                /\ flows[f].pc \in {"idle", "done"})

\* C22 witness: the button was pressed on a page without the URL, after the
\* auth effect had replaced the 'failed' of the first commit by 'ready'.
C22_Witness ==
    /\ ~cfg.rpcUrl
    /\ flows[1].outcome = "failed"
    /\ flows[1].errorMessage = Message.missingRpc
    /\ status = "failed"
    /\ error = Message.missingRpc
    /\ lastWrite = NoWrite


\* C23: the pool address that loadOperationMetadata read from the operation
\* record is display state only: no flow that submitted a transaction has it
\* as the destination of its transfer.
C23_MetadataPoolOnlyDisplayed ==
    \A f \in FlowIds :
        flows[f].requests # <<>> => ~FromMetadata(flows[f].target)

----------------------------------------------------------------------------
(* ensureWalletReady (PoolBridge.tsx:436-720), called on its own.  A wallet *)
(* is described by what the function reads of it.                           *)

\* the wallet objects tried: isConnected a function (returning true, false,
\* a truthy value other than true, or throwing), a boolean, or absent;
\* connectedAt a valid or invalid Date, a text, the empty text, or absent;
\* standardWallet absent or with its accounts and its standard:connect
\* feature; connect a function or absent
ReadyWallets ==
    {w \in [isConnected : {"absent", "fnTrue", "fnFalse", "fnTruthy",
                           "fnThrows", "true", "false"},
            connectedAt : {"absent", "date", "invalidDate", "text", "empty"},
            hasStandard : BOOLEAN,
            accounts : {"absent", "notArray", "empty", "some"},
            standardConnect : {"absent", "function", "object", "other"},
            hasConnect : BOOLEAN] :
        ~w.hasStandard => (w.accounts = "absent" /\ w.standardConnect = "absent")}

\* how the wallet answers a connect request
ConnectOutcomes == {"fulfilled", "rejected", "timeout"}

HasConnectedTimestamp(w) == w.connectedAt \in {"date", "text"}

\* checkIsConnected: result === true for a function, the value for a boolean
CheckIsConnected(w) == w.isConnected \in {"fnTrue", "true"}

HasStandardAccounts(w) == w.hasStandard /\ w.accounts = "some"

\* getConnectFunction: the feature itself or its connect member
GetConnectFunction(w) ==
    w.hasStandard /\ w.standardConnect \in {"function", "object"}

\* alreadyConnectedByProbe || alreadyConnectedByAccounts ||
\* alreadyConnectedByTimestamp
IsAlreadyConnectedNoTimestamp(byProbe, byAccounts, byTimestamp) ==
    byProbe \/ byAccounts

IsAlreadyConnected(byProbe, byAccounts, byTimestamp) ==
    byProbe \/ byAccounts \/ byTimestamp

\* the connect requests of one invocation, in order, and whether it rejects
EnsureWalletReady(w, outcome) ==
    LET byTimestamp == HasConnectedTimestamp(w)
        byProbe == CheckIsConnected(w)
        byAccounts == HasStandardAccounts(w)
    IN  IF GetConnectFunction(w)
        THEN IF IsAlreadyConnected(byProbe, byAccounts, byTimestamp)
             THEN [requests |-> <<>>, threw |-> FALSE]
             ELSE [requests |-> <<"standard:connect">>, threw |-> FALSE]
        ELSE IF byProbe \/ byAccounts THEN [requests |-> <<>>, threw |-> FALSE]
        ELSE IF byTimestamp THEN [requests |-> <<>>, threw |-> FALSE]
        ELSE IF ~w.hasConnect THEN [requests |-> <<>>, threw |-> FALSE]
        ELSE [requests |-> <<"connect">>, threw |-> outcome # "fulfilled"]

EnsureWalletReadyCall ==
    /\ call = NoCall
    /\ \E w \in ReadyWallets, outcome \in ConnectOutcomes :
          call' = [n |-> 1, fn |-> "ensureWalletReady",
                   args |-> [wallet |-> w, outcome |-> outcome],
                   result |-> EnsureWalletReady(w, outcome)]
    /\ UNCHANGED <<cfg, env, lifecycle, status, error, poolAddress,
                   hasRequestedLogin, needsTreasurySetup, loader, flows,
                   remote, lastWrite, passed>>
    /\ UNCHANGED <<waitVars, helper>>

SpecReady == InitHelper /\ [][EnsureWalletReadyCall]_vars

\* C24: ensureWalletReady makes no connect request when the wallet's
\* isConnected is or returns true, when it has a connection timestamp, or
\* when its standard wallet lists an account; otherwise it makes at most
\* one, the standard:connect feature or the wallet's connect method.
C24_NoRedundantConnect ==
    call.fn = "ensureWalletReady" =>
        LET w == call.args.wallet
            r == call.result
            reportsConnected ==
                \/ w.isConnected \in {"fnTrue", "true"}
                \/ w.connectedAt \in {"date", "text"}
                \/ w.accounts = "some"
        IN  /\ reportsConnected => r.requests = <<>>
            /\ Len(r.requests) <= 1
            /\ \A i \in 1..Len(r.requests) :
                  r.requests[i] \in {"standard:connect", "connect"}

\* C24 witness: a wallet that only has a connection timestamp and offers
\* standard:connect is left alone.
C24_Witness ==
    /\ call.fn = "ensureWalletReady"
    /\ call.args.wallet.connectedAt = "date"
    /\ call.args.wallet.isConnected = "fnFalse"
    /\ call.args.wallet.accounts = "empty"
    /\ call.args.wallet.standardConnect = "function"
    /\ call.result.requests = <<>>


\* the flow met a wallet or a recipient it cannot use, and the message of
\* the check that says so
Unusable(fl) ==
    \/ fl.wallet \in {"none", "invalid"}
    \/ fl.kind = "withdraw_pool" /\ fl.wallet = "ok" /\ ~cfg.recipientOk

UnusableMessage(fl) ==
    IF fl.wallet = "none" THEN Message.noWallet
    ELSE IF fl.wallet = "invalid" THEN Message.walletInvalid
    ELSE Message.recipientInvalid

\* C25: an invocation whose wallet could not be resolved or has an invalid
\* address, or a withdrawal whose recipient address is missing or invalid,
\* ends at once: the click leaves status 'failed' with the message of the
\* failed check, status is not 'processing' afterwards, and the invocation
\* makes no wallet request.
C25_UnusableWalletFailsAtOnce ==
    /\ [](\A f \in FlowIds :
            Unusable(flows[f]) =>
                /\ flows[f].pc = "done"
                /\ flows[f].outcome = "failed"
                /\ flows[f].errorMessage = UnusableMessage(flows[f])
                /\ flows[f].requests = <<>>
                /\ status # "processing")
    /\ [][\A f \in FlowIds :
            (~Started(f) /\ Unusable(flows'[f])) =>
                /\ status' = "failed"
                /\ error' = UnusableMessage(flows'[f])]_vars

\* C25 witness: a withdrawal with a usable wallet and an invalid recipient,
\* and a funding with a wallet whose address is no public key, have failed.
C25_Witness ==
    /\ flows[1].outcome = "failed"
    /\ status = "failed"
    /\ \/ /\ flows[1].kind = "withdraw_pool"
          /\ flows[1].wallet = "ok"
          /\ error = Message.recipientInvalid
       \/ /\ flows[1].kind = "fund_pool"
          /\ flows[1].wallet = "invalid"
          /\ error = Message.walletInvalid


\* the creation call, or the transfer call, of sendInstructions has returned
\* a value to executeFunding / executeWithdrawal
CreateReturned(fl) ==
    /\ fl.createResult # NoSignature
    /\ fl.pc # "createConfirm"
    /\ fl.failedAt # "createConfirm"

TransferReturned(fl) ==
    /\ fl.xferSignature # NoSignature
    /\ fl.pc # "xferConfirm"
    /\ fl.failedAt # "xferConfirm"

\* C26 as stated: a sendInstructions call that returned has built its
\* transaction, requested the wallet's sign-and-send and awaited the
\* confirmation of what it submitted.
C26_ResultOnlyAfterConfirmation ==
    \A f \in FlowIds :
        LET fl == flows[f]
        IN  /\ CreateReturned(fl) =>
                /\ CreateRequested(f)
                /\ fl.createWait # "none"
                /\ fl.createConfirm # "none"
            /\ TransferReturned(fl) =>
                /\ TransferRequested(f)
                /\ fl.xferWait # "none"
                /\ fl.xferConfirm # "none"

\* C26 amended: a call that returned a signature has built its transaction,
\* had the wallet's sign-and-send fulfilled and awaited the confirmation
\* (which, in executeFunding, reported no error); the only call that returns
\* without a confirmation is a creation whose wallet request timed out and
\* whose recovery check found the account: it returns the placeholder
\* 'timed-out' and no signature.
C26_ResultAfterConfirmationOrRecovery ==
    \A f \in FlowIds :
        LET fl == flows[f]
        IN  /\ CreateReturned(fl) =>
                /\ CreateRequested(f)
                /\ \/ /\ fl.createResult = TimedOutPlaceholder
                      /\ fl.createWait \in {"timeout", "rejected"}
                      /\ fl.recovery = "found"
                      /\ fl.createConfirm = "none"
                   \/ /\ fl.createResult = SignatureOf(f, 1)
                      /\ fl.createWait = "fulfilled"
                      /\ fl.recovery = "none"
                      /\ fl.createConfirm # "none"
                      /\ fl.kind = "fund_pool" => fl.createConfirm = "confirmed"
            /\ TransferReturned(fl) =>
                /\ TransferRequested(f)
                /\ fl.xferSignature = SignatureOf(f, Len(fl.requests))
                /\ fl.xferWait = "fulfilled"
                /\ fl.xferConfirm # "none"
                /\ fl.kind = "fund_pool" => fl.xferConfirm = "confirmed"

\* C26 witness: the creation returned the placeholder after a recovery
\* check, the transfer returned its signature after its confirmation.
C26_Witness ==
    /\ flows[1].createResult = TimedOutPlaceholder
    /\ flows[1].recovery = "found"
    /\ flows[1].xferSignature = SignatureOf(1, 2)
    /\ flows[1].xferConfirm = "confirmed"
    /\ flows[1].pc = "markCompleted"


TerminalWrites == {"completed", "failed", "needs_treasury_setup"}

\* C27: the writes to the record of an operation are ordered: 'processing'
\* is written before any wallet request of the invocation, 'completed' only
\* with the signature that the transfer submission returned, a terminal
\* write only after 'processing', and no write follows a terminal one.
C27_WritesInOrder ==
    /\ [][lastWrite' # lastWrite =>
            LET f == lastWrite'.flow
            IN  /\ lastWrite.status \notin TerminalWrites
                /\ lastWrite'.status = "processing" =>
                      (lastWrite = NoWrite /\ flows'[f].requests = <<>>)
                /\ lastWrite'.status \in TerminalWrites =>
                      lastWrite = [flow |-> f, status |-> "processing",
                                   transactionHash |-> NoSignature]
                /\ lastWrite'.status = "completed" =>
                      /\ TransferReturned(flows[f])
                      /\ lastWrite'.transactionHash = flows[f].xferSignature]_vars
    /\ [](\A f \in FlowIds :
            flows[f].requests # <<>> => lastWrite # NoWrite)


\* C28: an operation whose transfer was confirmed with an on-chain error
\* (confirmation.value.err set) reaches neither status 'success' nor a
\* 'completed' record, in a funding as in a withdrawal.
C28_ChainErrorNeverSucceeds ==
    \A f \in FlowIds :
        flows[f].xferConfirm = "chainError" =>
            /\ flows[f].outcome # "success"
            /\ flows[f].pc # "markCompleted"
            /\ ~(lastWrite.flow = f /\ lastWrite.status = "completed")
            /\ remote.status # "completed"


\* C29: whenever status is 'ready' the resolution of the pool address
\* (loadOperationMetadata, then resolveWorldDetails) has finished, and no
\* funding fails with 'Pool destination address is not configured' while the
\* resolution is still running.
C29_ReadyOnlyAfterResolution ==
    /\ [](status = "ready" => loader \in {"done", "threw"})
    /\ [][\A f \in FlowIds :
            (~Started(f) /\ flows'[f].errorMessage = Message.noPool) =>
                loader \in {"done", "threw"}]_vars


\* C30: the owner address that a funding transfer pays to is a valid public
\* key and differs from the request's userAddress, whether it came from the
\* URL, the operation record, the world or pool document or the earth
\* fallback.
C30_DestinationValidAndNotUser ==
    \A f \in FlowIds :
        (flows[f].kind = "fund_pool" /\ flows[f].requests # <<>>) =>
            /\ flows[f].target \in
                  {"url", "metadata", "metadataUser", "world", "earth"}
            /\ ~IsUserAddress(flows[f].target)

----------------------------------------------------------------------------
(* The amount of a request from the URL to the transfer instruction:        *)
(* parseParams keeps the text of the amount as amountRaw                    *)
(* (PoolBridge.tsx:177-185); executeFunding and executeWithdrawal hand it   *)
(* to toBaseUnits inside the try (1174-1185, 1659-1671) and put the result  *)
(* in the transfer instruction (1422-1434, 1887-1899).                      *)

\* the URL of a request that is complete apart from its amount
QueryWithAmount(amountStr) ==
    [action |-> Text(<<"fund_pool">>), worldId |-> Text(<<"earth">>),
     tokenMint |-> Text(<<"M">>), userAddress |-> Text(<<"U">>),
     operationId |-> Text(<<"OP">>), amount |-> Text(amountStr)]

\* toBaseUnits was not reached: the page of an invalid request has no button
NotConverted == [threw |-> FALSE, value |-> 0, warnings |-> 0]

\* amountBaseUnits of the transfer instruction, for the URL's amount text
AmountOfRequest(amountStr, decimals) ==
    LET params == ParseParams(QueryWithAmount(amountStr))
    IN  [params |-> params,
         converted |-> params.valid,
         base |-> IF params.valid
                  THEN ToBaseUnits(params.amountRaw, decimals)
                  ELSE NotConverted]

AmountOfRequestCall ==
    /\ call = NoCall
    /\ \E amountStr \in AmountTexts \cup QueryAmounts,
          decimals \in 0..MaxDecimals :
          call' = [n |-> 1, fn |-> "amountOfRequest",
                   args |-> [amountRaw |-> amountStr, decimals |-> decimals],
                   result |-> AmountOfRequest(amountStr, decimals)]
    /\ UNCHANGED <<cfg, env, lifecycle, status, error, poolAddress,
                   hasRequestedLogin, needsTreasurySetup, loader, flows,
                   remote, lastWrite, passed>>
    /\ UNCHANGED <<waitVars, helper>>

SpecRequestAmount == InitHelper /\ [][AmountOfRequestCall]_vars

\* C31: every amount text that parseParams accepts is converted by
\* toBaseUnits without the 'Invalid amount' exception, so that no accepted
\* request fails after status 'processing' because of the form of its amount.
C31_AcceptedAmountConverts ==
    (call.fn = "amountOfRequest" /\ call.result.converted) =>
        ~call.result.base.threw

\* C37: for every amount text that parseParams accepts and every number of
\* decimals, the base-unit amount placed in the transfer instruction is
\* above zero.
C37_AcceptedAmountPositive ==
    (/\ call.fn = "amountOfRequest"
     /\ call.result.converted
     /\ ~call.result.base.threw) =>
        call.result.base.value > 0

----------------------------------------------------------------------------
(* Further claims about executeFunding and waitForWalletResponse. *)

\* the accounts read by a funding do not allow the transfer
\* (PoolBridge.tsx:1148-1151, 1212-1234)
PreflightViolation(fl) ==
    /\ fl.kind = "fund_pool"
    /\ \/ fl.facts.mint = "missing"
       \/ fl.facts.source \in {"missing", "wrongOwner"}
       \/ fl.facts.dest = "wrongOwner"

\* C32: a funding makes no wallet signing request unless the mint account
\* exists, the contributor's associated token account exists and is owned by
\* the token program of the mint, and the destination account, if it exists,
\* is owned by that program; a funding that reads accounts violating one of
\* these has failed in the preflight with the message of the violated check
\* and with no signing request, and the step that reads them leaves the
\* mounted page in status 'failed' with that message.
C32_NoSigningBeforePreflight ==
    /\ [](\A f \in FlowIds :
            (flows[f].kind = "fund_pool" /\ flows[f].requests # <<>>) =>
                /\ flows[f].facts.mint = "ok"
                /\ flows[f].facts.source = "ok"
                /\ flows[f].facts.dest \in {"missing", "ok"})
    /\ [](\A f \in FlowIds :
            PreflightViolation(flows[f]) =>
                /\ flows[f].outcome = "failed"
                /\ flows[f].failedAt = "preflight"
                /\ flows[f].errorMessage =
                        PreflightError(flows[f].kind, flows[f].facts)
                /\ flows[f].requests = <<>>)
    /\ [][\A f \in FlowIds :
            (~PreflightViolation(flows[f]) /\ PreflightViolation(flows'[f])
                /\ Mounted) =>
                /\ status' = "failed"
                /\ error' = PreflightError(flows'[f].kind, flows'[f].facts)]_vars

\* C32 witness: a funding on the mounted page found the contributor's token
\* account owned by another program and failed without a signing request.
C32_Witness ==
    /\ Mounted
    /\ flows[1].kind = "fund_pool"
    /\ flows[1].facts.source = "wrongOwner"
    /\ flows[1].outcome = "failed"
    /\ flows[1].requests = <<>>
    /\ status = "failed"
    /\ error = Message.sourceOwner


\* C33: whenever an error message is set in the page state, status is
\* 'failed', the only status in which the message is displayed.
C33_ErrorOnlyWhenFailed ==
    error # NoError => status = "failed"


\* C36: on every settlement of a wait (the operation fulfilled, the operation
\* rejected, the timeout fired) both the timeout timer and the tick interval
\* are cancelled: no timer of a settled wait is active.
C36_NoTimerAfterSettlement ==
    \A w \in WaitIds :
        waits[w].promise.state # "pending" =>
            /\ waits[w].timeoutId # "armed"
            /\ waits[w].intervalId # "armed"

\* the part of C36 that holds: a wait settled by its operation has no timer
C36_NoTimerAfterOperationSettles ==
    \A w \in WaitIds :
        (waits[w].promise.state # "pending"
            /\ waits[w].first # [kind |-> "timeout"]) =>
            /\ waits[w].timeoutId # "armed"
            /\ waits[w].intervalId # "armed"


\* C35: the transactionHash written with status 'completed' is the signature
\* the wallet returned for the transfer request of the writing operation,
\* and never the 'timed-out' placeholder of a recovered creation.
C35_CompletedHashIsTransferSignature ==
    /\ lastWrite.status = "completed" =>
            /\ lastWrite.transactionHash # TimedOutPlaceholder
            /\ \E i \in 1..Len(flows[lastWrite.flow].requests) :
                    /\ flows[lastWrite.flow].requests[i] = TransferInstructions
                    /\ lastWrite.transactionHash =
                            SignatureOf(lastWrite.flow, i)
    /\ remote.status = "completed" =>
            /\ remote.transactionHash # TimedOutPlaceholder
            /\ \E f \in FlowIds :
                    \E i \in 1..Len(flows[f].requests) :
                        /\ flows[f].requests[i] = TransferInstructions
                        /\ remote.transactionHash = SignatureOf(f, i)

\* C35 witness: the creation timed out and was recovered with the
\* placeholder, the transfer went through, and the stored record is
\* 'completed' with the signature of the second request.
C35_Witness ==
    /\ flows[1].createResult = TimedOutPlaceholder
    /\ flows[1].requests = <<CreateInstructions, TransferInstructions>>
    /\ remote.status = "completed"
    /\ remote.transactionHash = SignatureOf(1, 2)


----------------------------------------------------------------------------
(* A further claim about sendTransactionWithFallback. *)

----------------------------------------------------------------------------
(* Progress of an operation on a page that stays mounted. *)

\* an RPC call or a call of the remote store that the operation awaits
\* settles, and the operation runs to its next await
CallSettles ==
    \E f \in FlowIds :
        \/ MarkProcessingDone(f)
        \/ PreflightDone(f)
        \/ CreateSubmit(f)
        \/ CreateCheckDone(f)
        \/ CreateConfirmDone(f)
        \/ TransferSubmit(f)
        \/ TransferConfirmDone(f)
        \/ MarkCompletedDone(f)
        \/ MarkFailedDone(f)

\* the timeout timer of waitForWalletResponse fires while the wallet has not
\* answered (PoolBridge.tsx:374-387)
WalletTimesOut ==
    \E f \in FlowIds :
        \/ /\ flows[f].pc = "createWait"
           /\ TimeoutArmed("create")
           /\ WaitSettles(f, "create", "timeout", NoValue)
           /\ FlowFrame
        \/ /\ flows[f].pc = "xferWait"
           /\ TimeoutArmed("xfer")
           /\ WaitSettles(f, "xfer", "timeout", NoValue)
           /\ FlowFrame

\* the session of one operation without the unmount and without the reads
\* of the loader, which touch neither the status nor a running operation
NextMounted ==
    \/ Mount
    \/ PrivyReady
    \/ LoginCompletes
    \/ SessionEnds
    \/ WalletsChange
    \/ Authorize(1)
    \/ FlowSteps

\* every awaited RPC or store call settles, and a timer that is due fires;
\* the wallet is free never to answer
SpecMounted ==
    /\ InitOp
    /\ [][NextMounted]_vars
    /\ WF_vars(CallSettles)
    /\ WF_vars(WalletTimesOut)

\* C34: on a page that stays mounted, where every RPC and remote-store call
\* settles, status 'processing' is followed by 'success' or 'failed', also
\* when a wallet request is never answered.
C34_ProcessingEnds ==
    (status = "processing") ~> (status \in {"success", "failed"})

\* C34 witness: the transfer request was left unanswered, the wait timed out
\* and the operation ended in 'failed'.
C34_Witness ==
    /\ Mounted
    /\ flows[1].xferWait = "timeout"
    /\ flows[1].outcome = "failed"
    /\ flows[1].pc = "done"
    /\ status = "failed"

====
